---- MODULE Spec2Model ----
(***************************************************************************)
(* Model of the Trader repository: the three back-test loops               *)
(* (backtest/sma.py, backtest/ema.py, backtest/alligator.py) and the       *)
(* signal generators that feed them.                                       *)
(*                                                                         *)
(* Prices, cash and quantities are Python floats in the source.  They are  *)
(* modelled as exact rationals [n |-> numerator, d |-> denominator] in     *)
(* lowest terms with d > 0; rounding of the binary floating point is not   *)
(* modelled.  NaN is a value of its own: every comparison with it is       *)
(* false and every arithmetic operation on it yields NaN, as in IEEE 754.  *)
(***************************************************************************)
EXTENDS Integers, Sequences, FiniteSets, TLC

VARIABLES
    strategy,      \* which module runs: "sma", "ema" or "alligator"
    pc,            \* position of the running function
    initial_equity,\* parameter of backtest_*
    fee_rate,      \* parameter of backtest_*
    open_time,     \* df_sig["open_time"], the whole column
    i,             \* loop index of `for i in range(len(df_sig) - 1)`
    row,           \* df_sig.iloc[i] of the iteration that ran last
    cash,          \* `equity` in sma.py / alligator.py, `cash` in ema.py
    position,      \* quantity held
    entry_price,
    entry_time,
    trades,        \* List[Trade]
    equity_curve,  \* list of mark-to-market values
    equity_series, \* pd.Series(equity_curve, index=open_time[:len])
    fills,         \* log of the fills executed so far (history variable)
    stats,         \* the stats dict a back-test returns
    params,        \* (fast, slow) of ema.compute_signals
    df,            \* the bar table handed to a signal function
    df_sig,        \* the table the signal function returned
    call,          \* the last call of a function that is called directly
    pm,            \* the PositionManager of trader_bot.main
    runs           \* the three back-tests run side by side on the same bars

\* the variables of a signal computation
sigvars == <<params, df, df_sig, call>>

\* the variables of a back-test run
runvars == <<initial_equity, fee_rate, open_time, i, row, cash, position,
             entry_price, entry_time, trades, equity_curve, equity_series,
             fills, stats>>

vars == <<strategy, pc, runvars, sigvars, pm, runs>>

----------------------------------------------------------------------------
(* Bounds of the model.                                                    *)

MaxBars == 4        \* longest df_sig
MaxStart == 1       \* latest open_time of the first bar
MaxGap == 2         \* widest spacing of two bars
MaxPrice == 2       \* largest close / next_open drawn for a back-test row

----------------------------------------------------------------------------
(* Floats as exact rationals.                                              *)

Abs(x) == IF x < 0 THEN 0 - x ELSE x

RECURSIVE GCD(_, _)
GCD(a, b) == IF b = 0 THEN a ELSE GCD(b, a % b)

NaN == [n |-> 0, d |-> 0]
\* Python's None in a float-typed slot (entry_price); not a number either.
None == [n |-> 1, d |-> 0]
\* Python's None in a timestamp slot (entry_time); stamps are positive.
NoTime == 0

IsNaN(x) == x = NaN

Rat(n, d) ==
    IF d = 0 THEN NaN
    ELSE LET g == GCD(Abs(n), Abs(d))
             s == IF d < 0 THEN 0 - 1 ELSE 1
         IN  [n |-> (s * n) \div g, d |-> (s * d) \div g]

Num(k) == [n |-> k, d |-> 1]
Zero == Num(0)
One == Num(1)

\* The operations cancel common factors before they multiply, so that the
\* intermediate integers stay small.
LCM(a, b) == (a \div GCD(a, b)) * b

Add(x, y) == IF x.d = 0 \/ y.d = 0 THEN NaN
             ELSE LET m == LCM(x.d, y.d)
                  IN  Rat(x.n * (m \div x.d) + y.n * (m \div y.d), m)
Neg(x) == IF x.d = 0 THEN NaN ELSE [n |-> 0 - x.n, d |-> x.d]
Sub(x, y) == Add(x, Neg(y))
Mul(x, y) == IF x.d = 0 \/ y.d = 0 THEN NaN
             ELSE LET g1 == GCD(Abs(x.n), y.d)
                      g2 == GCD(Abs(y.n), x.d)
                  IN  Rat((x.n \div g1) * (y.n \div g2),
                          (x.d \div g2) * (y.d \div g1))
Inv(y) == IF y.d = 0 \/ y.n = 0 THEN NaN
          ELSE IF y.n < 0 THEN [n |-> 0 - y.d, d |-> 0 - y.n]
          ELSE [n |-> y.d, d |-> y.n]
Div(x, y) == Mul(x, Inv(y))

\* a/b < c/d for b, d > 0, by comparing the integer parts and then the
\* reciprocals of the fractional parts; no product is ever formed.
RECURSIVE FracLt(_, _, _, _)
FracLt(a, b, c, d) ==
    LET q1 == a \div b
        q2 == c \div d
        r1 == a % b
        r2 == c % d
    IN  IF q1 # q2 THEN q1 < q2
        ELSE IF r2 = 0 THEN FALSE
        ELSE IF r1 = 0 THEN TRUE
        ELSE FracLt(d, r2, b, r1)

\* Comparisons: false as soon as one side is NaN.
Lt(x, y) == x.d > 0 /\ y.d > 0 /\ FracLt(x.n, x.d, y.n, y.d)
Le(x, y) == x.d > 0 /\ y.d > 0 /\ ~FracLt(y.n, y.d, x.n, x.d)
Gt(x, y) == Lt(y, x)
Ge(x, y) == Le(y, x)

----------------------------------------------------------------------------
(* Inputs of a back-test.                                                  *)

InitialEquities == {Num(100)}
\* a fee-free run, a fee of 10 %, and a negative rate, which no check of
\* the back-test functions keeps out
FeeRates == {Zero, Rat(1, 10), Rat(0 - 1, 10)}

\* next_open of a row: NaN, a non-positive price, or a positive price.
NextOpens == {NaN, Zero} \cup {Num(p) : p \in 1..MaxPrice}
Closes == {Num(p) : p \in 1..MaxPrice}

\* Strictly increasing columns of time stamps of length 2..MaxBars.
\* The bars are evenly spaced (one timeframe apart), from any first stamp.
OpenTimeColumns ==
    {[k \in 1..len |-> t0 + (k - 1) * gap] :
        len \in 2..MaxBars, t0 \in 1..MaxStart, gap \in 1..MaxGap}

\* The rows a df_sig can hold at index k.  ind_na stands for
\* pd.isna() of any indicator column the strategy's loop looks at; the EMA
\* columns of ewm(adjust=False) are defined from the first bar on and
\* backtest_ema_cross reads none of them.
Rows(strat, k) ==
    [open_time : {open_time[k + 1]},
     close : Closes,
     next_open : NextOpens,
     ind_na : IF strat = "ema" THEN {FALSE} ELSE BOOLEAN,
     signal_long : BOOLEAN,
     signal_exit : BOOLEAN]

NoRow == [open_time |-> NoTime, close |-> NaN, next_open |-> NaN,
          ind_na |-> FALSE, signal_long |-> FALSE, signal_exit |-> FALSE]

\* A DataFrame is a record of columns, each a sequence of one value per row.
\* No table at all (the variable is not in use, or nothing was returned):
NoFrame == [open_time |-> <<>>]

\* No stats dict yet, and no call of the dispatching functions yet.
NoStats == [num_trades |-> 0 - 1]
NoCall == [fn |-> "none"]

\* No PositionManager has been constructed.
NoManager == [active |-> "none"]

\* No back-tests are run side by side.
NoRuns == [warm_up |-> 0 - 1]

Trade(et, xt, ep, xp, pnl, ret) ==
    [entry_time |-> et, exit_time |-> xt, entry_price |-> ep,
     exit_price |-> xp, pnl |-> pnl, ret |-> ret]

----------------------------------------------------------------------------
(* The back-test loops.  One action is one iteration of the `for` loop of  *)
(* the function, from `row = df_sig.iloc[i]` to the append to              *)
(* equity_curve (or to the `continue`).                                    *)

Fill(kind, bar, px, qty) ==
    [kind |-> kind, bar |-> bar, price |-> px, qty |-> qty]

Init ==
    /\ strategy \in {"sma", "ema", "alligator"}
    /\ pc = "loop"
    /\ initial_equity \in InitialEquities
    /\ fee_rate \in FeeRates
    /\ open_time \in OpenTimeColumns
    /\ i = 0
    /\ row = NoRow
    /\ cash = initial_equity
    /\ position = Zero
    /\ entry_price = None
    /\ entry_time = NoTime
    /\ trades = <<>>
    /\ equity_curve = <<>>
    /\ equity_series = <<>>
    /\ fills = <<>>
    /\ stats = NoStats
    /\ pm = NoManager
    /\ runs = NoRuns
    /\ params = <<>>
    /\ df = NoFrame
    /\ df_sig = NoFrame
    /\ call = NoCall

\* The local variables of a running back-test, as one record.
State ==
    [cash |-> cash, position |-> position, entry_price |-> entry_price,
     entry_time |-> entry_time, trades |-> trades, fills |-> fills]

\* Mutant: the loop runs over every bar, the last one included.
sma_range_all(n) == n

\* sma.py 91: `for i in range(len(df_sig) - 1)`
sma_range(n) == n - 1

\* Mutant: the `px_next_open <= 0` test is missing.
sma_skip_nan_only(r) ==
    \/ r.ind_na
    \/ IsNaN(r.next_open)

\* sma.py 95, 99-100: the bar is skipped for trading
sma_skip(r) ==
    \/ r.ind_na
    \/ IsNaN(r.next_open)
    \/ Le(r.next_open, Zero)

\* sma.py 96, 101: the equity point of a skipped bar
sma_skip_equity(st, r) ==
    IF st.position = Zero THEN st.cash
    ELSE Add(st.cash, Mul(st.position, r.close))

\* sma.py 105: `if position > 0 and row[exit flag]`
sma_exit_cond(st, r) == Gt(st.position, Zero) /\ r.signal_exit

\* Mutant: the fee of the exit is not deducted.
sma_cash_in_gross(qty, px_next_open) == Mul(qty, px_next_open)

\* sma.py 106-108: gross, fee, cash_in
sma_cash_in(qty, px_next_open) ==
    LET gross == Mul(qty, px_next_open)
        fee == Mul(gross, fee_rate)
    IN  Sub(gross, fee)

\* Mutant: the return of a trade ignores the fees.
sma_trade_ret_no_fee(px_next_open, ep) == Sub(Div(px_next_open, ep), One)

\* sma.py 110
sma_trade_ret(px_next_open, ep) ==
    Sub(Div(Mul(px_next_open, Sub(One, fee_rate)),
            Mul(ep, Add(One, fee_rate))), One)

\* Mutant: entry_time and exit_time are passed the wrong way round.
sma_trade_record_swapped(st, r) ==
    Trade(r.open_time, st.entry_time, st.entry_price, r.next_open,
          sma_cash_in(st.position, r.next_open),
          sma_trade_ret(r.next_open, st.entry_price))

\* sma.py 111-123: the Trade appended by an exit
sma_trade_record(st, r) ==
    Trade(st.entry_time, r.open_time, st.entry_price, r.next_open,
          sma_cash_in(st.position, r.next_open),
          sma_trade_ret(r.next_open, st.entry_price))

\* sma.py 105-127: the exit block
sma_exit(st, r) ==
    IF sma_exit_cond(st, r)
    THEN [cash |-> Add(st.cash, sma_cash_in(st.position, r.next_open)),
          position |-> Zero,
          entry_price |-> None,
          entry_time |-> NoTime,
          trades |-> Append(st.trades, sma_trade_record(st, r)),
          fills |-> Append(st.fills, Fill("exit", i, r.next_open, st.position))]
    ELSE st

\* Mutant: the `position == 0` test is missing.
sma_entry_cond_any(st, r) == r.signal_long

\* Mutant: the entry block reads the exit flag.
sma_entry_cond_on_exit_flag(st, r) == st.position = Zero /\ r.signal_exit

\* sma.py 130: `if position == 0 and row[entry flag]`
sma_entry_cond(st, r) == st.position = Zero /\ r.signal_long

\* sma.py 132
sma_size(eq, px_next_open) ==
    Div(eq, Mul(px_next_open, Add(One, fee_rate)))

\* Mutant: the entry pays the cost without the fee.
sma_entry_cost_no_fee(size, px_next_open) == Mul(size, px_next_open)

\* sma.py 133-136: cost + fee
sma_entry_cost(size, px_next_open) ==
    LET cost == Mul(size, px_next_open)
        fee == Mul(cost, fee_rate)
    IN  Add(cost, fee)

\* Mutant: the entry block records an open Trade in the ledger.
sma_entry_opens_trade(st, r) ==
    IF sma_entry_cond(st, r)
    THEN LET size == sma_size(st.cash, r.next_open)
         IN  [cash |-> Sub(st.cash, sma_entry_cost(size, r.next_open)),
              position |-> size,
              entry_price |-> r.next_open,
              entry_time |-> r.open_time,
              trades |-> Append(st.trades,
                                Trade(r.open_time, NoTime, r.next_open, None,
                                      Zero, Zero)),
              fills |-> Append(st.fills, Fill("entry", i, r.next_open, size))]
    ELSE st

\* sma.py 130-139: the entry block
sma_entry(st, r) ==
    IF sma_entry_cond(st, r)
    THEN LET size == sma_size(st.cash, r.next_open)
         IN  [cash |-> Sub(st.cash, sma_entry_cost(size, r.next_open)),
              position |-> size,
              entry_price |-> r.next_open,
              entry_time |-> r.open_time,
              trades |-> st.trades,
              fills |-> Append(st.fills, Fill("entry", i, r.next_open, size))]
    ELSE st

\* Mutant: the entry block runs before the exit block.
sma_trade_entry_first(st, r) == sma_exit(sma_entry(st, r), r)

\* sma.py 104-139: exit block, then entry block
sma_trade(st, r) == sma_entry(sma_exit(st, r), r)

\* Mutant: the position is valued at the fill price, not at the close.
sma_mtm_next_open(st, r) == Add(st.cash, Mul(st.position, r.next_open))

\* sma.py 142: mtm_equity
sma_mtm(st, r) == Add(st.cash, Mul(st.position, r.close))

\* sma.py 91-143: one iteration of the loop of backtest_sma_cross
backtest_sma_cross ==
    /\ strategy = "sma"
    /\ pc = "loop"
    /\ i < sma_range(Len(open_time))
    /\ \E r \in Rows("sma", i) :
          /\ row' = r
          /\ IF sma_skip(r)
             THEN /\ equity_curve' = Append(equity_curve, sma_skip_equity(State, r))
                  /\ UNCHANGED <<cash, position, entry_price, entry_time,
                                 trades, fills>>
             ELSE \E st \in {sma_trade(State, r)} :
                      /\ cash' = st.cash
                      /\ position' = st.position
                      /\ entry_price' = st.entry_price
                      /\ entry_time' = st.entry_time
                      /\ trades' = st.trades
                      /\ fills' = st.fills
                      /\ equity_curve' = Append(equity_curve, sma_mtm(st, r))
    /\ i' = i + 1
    /\ UNCHANGED <<strategy, pc, initial_equity, fee_rate, open_time,
                   equity_series, stats, sigvars, pm, runs>>

\* ema.py 72: `for i in range(len(df_sig) - 1)`
ema_range(n) == n - 1

\* ema.py 74-76: the bar is skipped for trading
ema_skip(r) ==
    \/ IsNaN(r.next_open)
    \/ Le(r.next_open, Zero)

\* ema.py 77: the equity point of a skipped bar
ema_skip_equity(st, r) ==
    Add(st.cash, Mul(st.position, r.close))

\* ema.py 80: `if position > 0 and row[exit flag]`
ema_exit_cond(st, r) == Gt(st.position, Zero) /\ r.signal_exit

\* ema.py 81-83: gross, fee, cash_in
ema_cash_in(qty, px_next_open) ==
    LET gross == Mul(qty, px_next_open)
        fee == Mul(gross, fee_rate)
    IN  Sub(gross, fee)

\* ema.py 85
ema_trade_ret(px_next_open, ep) ==
    Sub(Div(Mul(px_next_open, Sub(One, fee_rate)),
            Mul(ep, Add(One, fee_rate))), One)

\* ema.py 86-99: the Trade appended by an exit
ema_trade_record(st, r) ==
    Trade(st.entry_time, r.open_time, st.entry_price, r.next_open,
          ema_cash_in(st.position, r.next_open),
          ema_trade_ret(r.next_open, st.entry_price))

\* ema.py 80-104: the exit block
ema_exit(st, r) ==
    IF ema_exit_cond(st, r)
    THEN [cash |-> Add(st.cash, ema_cash_in(st.position, r.next_open)),
          position |-> Zero,
          entry_price |-> None,
          entry_time |-> NoTime,
          trades |-> Append(st.trades, ema_trade_record(st, r)),
          fills |-> Append(st.fills, Fill("exit", i, r.next_open, st.position))]
    ELSE st

\* ema.py 106: `if position == 0 and row[entry flag]`
ema_entry_cond(st, r) == st.position = Zero /\ r.signal_long

\* ema.py 107
ema_size(eq, px_next_open) ==
    Div(eq, Mul(px_next_open, Add(One, fee_rate)))

\* ema.py 108-111: cost + fee
ema_entry_cost(size, px_next_open) ==
    LET cost == Mul(size, px_next_open)
        fee == Mul(cost, fee_rate)
    IN  Add(cost, fee)

\* ema.py 106-115: the entry block
ema_entry(st, r) ==
    IF ema_entry_cond(st, r)
    THEN LET size == ema_size(st.cash, r.next_open)
         IN  [cash |-> Sub(st.cash, ema_entry_cost(size, r.next_open)),
              position |-> size,
              entry_price |-> r.next_open,
              entry_time |-> r.open_time,
              trades |-> st.trades,
              fills |-> Append(st.fills, Fill("entry", i, r.next_open, size))]
    ELSE st

\* ema.py 80-115: exit block, then entry block
ema_trade(st, r) == ema_entry(ema_exit(st, r), r)

\* Mutant: the position is valued at the fill price, not at the close.
ema_mtm_next_open(st, r) == Add(st.cash, Mul(st.position, r.next_open))

\* ema.py 117: mtm_equity
ema_mtm(st, r) == Add(st.cash, Mul(st.position, r.close))

\* ema.py 72-118: one iteration of the loop of backtest_ema_cross
backtest_ema_cross ==
    /\ strategy = "ema"
    /\ pc = "loop"
    /\ i < ema_range(Len(open_time))
    /\ \E r \in Rows("ema", i) :
          /\ row' = r
          /\ IF ema_skip(r)
             THEN /\ equity_curve' = Append(equity_curve, ema_skip_equity(State, r))
                  /\ UNCHANGED <<cash, position, entry_price, entry_time,
                                 trades, fills>>
             ELSE \E st \in {ema_trade(State, r)} :
                      /\ cash' = st.cash
                      /\ position' = st.position
                      /\ entry_price' = st.entry_price
                      /\ entry_time' = st.entry_time
                      /\ trades' = st.trades
                      /\ fills' = st.fills
                      /\ equity_curve' = Append(equity_curve, ema_mtm(st, r))
    /\ i' = i + 1
    /\ UNCHANGED <<strategy, pc, initial_equity, fee_rate, open_time,
                   equity_series, stats, sigvars, pm, runs>>

\* alligator.py 146: `for i in range(len(df_sig) - 1)`
alligator_range(n) == n - 1

\* alligator.py 150, 154-155: the bar is skipped for trading
alligator_skip(r) ==
    \/ r.ind_na
    \/ IsNaN(r.next_open)
    \/ Le(r.next_open, Zero)

\* alligator.py 151, 156: the equity point of a skipped bar
alligator_skip_equity(st, r) ==
    IF st.position = Zero THEN st.cash
    ELSE Add(st.cash, Mul(st.position, r.close))

\* alligator.py 160: `if position > 0 and row[exit flag]`
alligator_exit_cond(st, r) == Gt(st.position, Zero) /\ r.signal_exit

\* alligator.py 161-163: gross, fee, cash_in
alligator_cash_in(qty, px_next_open) ==
    LET gross == Mul(qty, px_next_open)
        fee == Mul(gross, fee_rate)
    IN  Sub(gross, fee)

\* alligator.py 166
alligator_trade_ret(px_next_open, ep) ==
    Sub(Div(Mul(px_next_open, Sub(One, fee_rate)),
            Mul(ep, Add(One, fee_rate))), One)

\* alligator.py 167-179: the Trade appended by an exit
alligator_trade_record(st, r) ==
    Trade(st.entry_time, r.open_time, st.entry_price, r.next_open,
          alligator_cash_in(st.position, r.next_open),
          alligator_trade_ret(r.next_open, st.entry_price))

\* alligator.py 160-183: the exit block
alligator_exit(st, r) ==
    IF alligator_exit_cond(st, r)
    THEN [cash |-> Add(st.cash, alligator_cash_in(st.position, r.next_open)),
          position |-> Zero,
          entry_price |-> None,
          entry_time |-> NoTime,
          trades |-> Append(st.trades, alligator_trade_record(st, r)),
          fills |-> Append(st.fills, Fill("exit", i, r.next_open, st.position))]
    ELSE st

\* alligator.py 186: `if position == 0 and row[entry flag]`
alligator_entry_cond(st, r) == st.position = Zero /\ r.signal_long

\* alligator.py 188
alligator_size(eq, px_next_open) ==
    Div(eq, Mul(px_next_open, Add(One, fee_rate)))

\* alligator.py 189-192: cost + fee
alligator_entry_cost(size, px_next_open) ==
    LET cost == Mul(size, px_next_open)
        fee == Mul(cost, fee_rate)
    IN  Add(cost, fee)

\* alligator.py 186-195: the entry block
alligator_entry(st, r) ==
    IF alligator_entry_cond(st, r)
    THEN LET size == alligator_size(st.cash, r.next_open)
         IN  [cash |-> Sub(st.cash, alligator_entry_cost(size, r.next_open)),
              position |-> size,
              entry_price |-> r.next_open,
              entry_time |-> r.open_time,
              trades |-> st.trades,
              fills |-> Append(st.fills, Fill("entry", i, r.next_open, size))]
    ELSE st

\* alligator.py 159-195: exit block, then entry block
alligator_trade(st, r) == alligator_entry(alligator_exit(st, r), r)

\* alligator.py 198: mtm_equity
alligator_mtm(st, r) == Add(st.cash, Mul(st.position, r.close))

\* alligator.py 146-199: one iteration of the loop of backtest_alligator
backtest_alligator ==
    /\ strategy = "alligator"
    /\ pc = "loop"
    /\ i < alligator_range(Len(open_time))
    /\ \E r \in Rows("alligator", i) :
          /\ row' = r
          /\ IF alligator_skip(r)
             THEN /\ equity_curve' = Append(equity_curve, alligator_skip_equity(State, r))
                  /\ UNCHANGED <<cash, position, entry_price, entry_time,
                                 trades, fills>>
             ELSE \E st \in {alligator_trade(State, r)} :
                      /\ cash' = st.cash
                      /\ position' = st.position
                      /\ entry_price' = st.entry_price
                      /\ entry_time' = st.entry_time
                      /\ trades' = st.trades
                      /\ fills' = st.fills
                      /\ equity_curve' = Append(equity_curve, alligator_mtm(st, r))
    /\ i' = i + 1
    /\ UNCHANGED <<strategy, pc, initial_equity, fee_rate, open_time,
                   equity_series, stats, sigvars, pm, runs>>

\* sma.py 145, ema.py 120-123, alligator.py 202-205: the loop is over and the
\* curve is indexed by the first len(equity_curve) stamps of the column.
equity_series_of(curve) ==
    [k \in 1..Len(curve) |-> [open_time |-> open_time[k], equity |-> curve[k]]]

(* The performance figures: sma.py 148-166, ema.py 125-142,              *)
(* alligator.py 208-227 (the same statements in the three files).          *)

\* Series.iloc[-1]
Last(s) == s[Len(s)]

\* Series.cummax()
CumMax(xs) ==
    LET RECURSIVE run(_)
        run(n) == IF n = 0 THEN <<>>
                  ELSE LET before == run(n - 1)
                       IN  Append(before,
                                  IF n = 1 \/ Gt(xs[n], before[n - 1])
                                  THEN xs[n] ELSE before[n - 1])
    IN  run(Len(xs))

\* Series.min() of a non-empty series
SeqMin(xs) ==
    LET RECURSIVE least(_)
        least(n) == IF n = 1 THEN xs[1]
                    ELSE LET m == least(n - 1)
                         IN  IF Lt(xs[n], m) THEN xs[n] ELSE m
    IN  least(Len(xs))

\* Series.sum() and Series.mean()
SeqSum(xs) ==
    LET RECURSIVE total(_)
        total(n) == IF n = 0 THEN Zero ELSE Add(total(n - 1), xs[n])
    IN  total(Len(xs))
SeqMean(xs) == Div(SeqSum(xs), Num(Len(xs)))

\* sma.py 148: equity_series.pct_change().fillna(0.0)
stats_returns(curve) ==
    [k \in 1..Len(curve) |->
        IF k = 1 THEN Zero
        ELSE LET r == Sub(Div(curve[k], curve[k - 1]), One)
             IN  IF IsNaN(r) THEN Zero ELSE r]

\* sma.py 149
stats_total_return(curve, init_eq) == Sub(Div(Last(curve), init_eq), One)

\* Mutant: the peak is the first point instead of the running maximum.
stats_max_equity_first(curve) == [k \in 1..Len(curve) |-> curve[1]]

\* sma.py 150
stats_max_equity(curve) == CumMax(curve)

\* sma.py 151
stats_drawdown(curve) ==
    LET max_equity == stats_max_equity(curve)
    IN  [k \in 1..Len(curve) |-> Sub(Div(curve[k], max_equity[k]), One)]

\* sma.py 152
stats_max_dd(curve) == SeqMin(stats_drawdown(curve))

\* Series.std(ddof=0), squared
Variance(xs) ==
    LET mean == SeqMean(xs)
    IN  SeqMean([k \in 1..Len(xs) |->
                    Mul(Sub(xs[k], mean), Sub(xs[k], mean))])

\* sma.py 155: np.sqrt(252 * 24)
TradingDays == 252
BarsPerDay == 24
AnnualizationPeriods == TradingDays * BarsPerDay

\* sma.py 154-157.  The Sharpe ratio (mean / std) * sqrt(252 * 24) is
\* irrational in general; it is kept as its sign and the square of
\* mean / std, which determine it.  0.0 is sign 0 and square 0.
SharpeZero == [sign |-> 0, ratio_sq |-> Zero]
stats_sharpe(curve) ==
    LET returns == stats_returns(curve)
        var == Variance(returns)
        mean == SeqMean(returns)
    IN  IF Gt(var, Zero)
        THEN [sign |-> IF Gt(mean, Zero) THEN 1
                       ELSE IF Lt(mean, Zero) THEN 0 - 1 ELSE 0,
              ratio_sq |-> Div(Mul(mean, mean), var)]
        ELSE SharpeZero

\* sma.py 159-166
stats_dict(curve, init_eq, ledger) ==
    [initial_equity |-> init_eq,
     final_equity |-> Last(curve),
     total_return |-> stats_total_return(curve, init_eq),
     max_drawdown |-> stats_max_dd(curve),
     sharpe_approx |-> stats_sharpe(curve),
     num_trades |-> Len(ledger)]

\* trader/utils.py 24-27
utils_max_drawdown(curve) ==
    IF Len(curve) = 0 THEN Zero
    ELSE LET roll_max == CumMax(curve)
         IN  SeqMin([k \in 1..Len(curve) |->
                        Sub(Div(curve[k], roll_max[k]), One)])

\* where the loop of the running function stops
LoopRange ==
    CASE strategy = "sma" -> sma_range(Len(open_time))
      [] strategy = "ema" -> ema_range(Len(open_time))
      [] strategy = "alligator" -> alligator_range(Len(open_time))

finish ==
    /\ pc = "loop"
    /\ i >= LoopRange
    /\ equity_series' = equity_series_of(equity_curve)
    /\ stats' = stats_dict(equity_curve, initial_equity, trades)
    /\ pc' = "done"
    /\ UNCHANGED <<strategy, initial_equity, fee_rate, open_time, i, row, cash,
                   position, entry_price, entry_time, trades, equity_curve,
                   fills, sigvars, pm, runs>>

Next ==
    \/ backtest_sma_cross
    \/ backtest_ema_cross
    \/ backtest_alligator
    \/ finish

Spec == Init /\ [][Next]_vars

TypeOK ==
    /\ pc \in {"loop", "done"}
    /\ i \in 0..Len(open_time)
    /\ Len(equity_curve) = i

----------------------------------------------------------------------------
(* The three back-test functions run side by side: each is handed the same *)
(* initial_equity and fee_rate and reads the same row on every bar.        *)

\* sma.py 83-89, ema.py 64-70, alligator.py 138-144
InitialState(eq) ==
    [cash |-> eq, position |-> Zero, entry_price |-> None,
     entry_time |-> NoTime, trades |-> <<>>, fills |-> <<>>]

InitialRun(eq) ==
    [st |-> InitialState(eq), equity_curve |-> <<>>, stats |-> NoStats]

\* sma.py 92-143: one iteration of backtest_sma_cross on the row r
sma_iteration(run, r) ==
    IF sma_skip(r)
    THEN [run EXCEPT !.equity_curve = Append(@, sma_skip_equity(run.st, r))]
    ELSE [run EXCEPT !.st = sma_trade(run.st, r),
                     !.equity_curve = Append(@, sma_mtm(sma_trade(run.st, r), r))]

\* ema.py 73-118: one iteration of backtest_ema_cross on the row r
ema_iteration(run, r) ==
    IF ema_skip(r)
    THEN [run EXCEPT !.equity_curve = Append(@, ema_skip_equity(run.st, r))]
    ELSE [run EXCEPT !.st = ema_trade(run.st, r),
                     !.equity_curve = Append(@, ema_mtm(ema_trade(run.st, r), r))]

\* alligator.py 147-199: one iteration of backtest_alligator on the row r
alligator_iteration(run, r) ==
    IF alligator_skip(r)
    THEN [run EXCEPT !.equity_curve =
                         Append(@, alligator_skip_equity(run.st, r))]
    ELSE [run EXCEPT !.st = alligator_trade(run.st, r),
                     !.equity_curve =
                         Append(@, alligator_mtm(alligator_trade(run.st, r), r))]

\* sma.py 145-168, ema.py 120-144, alligator.py 202-229: the loop is over
run_finish(run) ==
    [run EXCEPT !.stats = stats_dict(run.equity_curve, initial_equity,
                                     run.st.trades)]

InitLockstep ==
    /\ strategy = "all"
    /\ pc = "lockstep"
    /\ initial_equity \in InitialEquities
    /\ fee_rate \in FeeRates
    /\ open_time \in OpenTimeColumns
    /\ i = 0
    /\ row = NoRow
    /\ runs = [warm_up |-> 0,
               sma |-> InitialRun(initial_equity),
               ema |-> InitialRun(initial_equity),
               alligator |-> InitialRun(initial_equity)]
    /\ cash = Zero
    /\ position = Zero
    /\ entry_price = None
    /\ entry_time = NoTime
    /\ trades = <<>>
    /\ equity_curve = <<>>
    /\ equity_series = <<>>
    /\ fills = <<>>
    /\ stats = NoStats
    /\ params = <<>>
    /\ df = NoFrame
    /\ df_sig = NoFrame
    /\ call = NoCall
    /\ pm = NoManager

\* The rows of bar k of a table whose indicators are undefined on its first
\* bars only (the warm-up of a rolling or shifted average): the indicators
\* of bar k can be undefined if they were on every bar before it.
LockstepRows(k) ==
    {r \in Rows("sma", k) : r.ind_na => runs.warm_up = k}

\* the three loops read bar i; the loops have the same range
lockstep_iteration ==
    /\ pc = "lockstep"
    /\ i < sma_range(Len(open_time))
    /\ i < ema_range(Len(open_time))
    /\ i < alligator_range(Len(open_time))
    /\ \E r \in LockstepRows(i) :
          /\ row' = r
          /\ runs' = [warm_up |-> IF r.ind_na THEN i + 1 ELSE runs.warm_up,
                      sma |-> sma_iteration(runs.sma, r),
                      ema |-> ema_iteration(runs.ema, r),
                      alligator |-> alligator_iteration(runs.alligator, r)]
    /\ i' = i + 1
    /\ UNCHANGED <<strategy, pc, initial_equity, fee_rate, open_time, cash,
                   position, entry_price, entry_time, trades, equity_curve,
                   equity_series, fills, stats, sigvars, pm>>

\* the three loops are over and each function computes its stats
lockstep_finish ==
    /\ pc = "lockstep"
    /\ i >= sma_range(Len(open_time))
    /\ i >= ema_range(Len(open_time))
    /\ i >= alligator_range(Len(open_time))
    /\ runs' = [warm_up |-> runs.warm_up,
                sma |-> run_finish(runs.sma),
                ema |-> run_finish(runs.ema),
                alligator |-> run_finish(runs.alligator)]
    /\ pc' = "returned"
    /\ UNCHANGED <<strategy, initial_equity, fee_rate, open_time, i, row, cash,
                   position, entry_price, entry_time, trades, equity_curve,
                   equity_series, fills, stats, sigvars, pm>>

NextLockstep ==
    \/ lockstep_iteration
    \/ lockstep_finish

SpecLockstep == InitLockstep /\ [][NextLockstep]_vars

----------------------------------------------------------------------------
(* Vocabulary of the properties of the back-test loops.                    *)

\* An iteration of the loop ran in this step; row' is the row it read and
\* the unprimed i is the index of the bar.
Stepped == i' = i + 1

\* The fills the step executed, in the order it executed them.
NewFills == SubSeq(fills', Len(fills) + 1, Len(fills'))

Count(f, kind) == Cardinality({k \in 1..Len(f) : f[k].kind = kind})

\* Number of positions open after the fills f.
OpenCount(f) == Count(f, "entry") - Count(f, "exit")

\* The bar cannot trade: indicators undefined, or next_open undefined or <= 0.
Untradable(r) == r.ind_na \/ ~Gt(r.next_open, Zero)

\* C1: at most one position is open at any time; an entry flag on a bar that
\* starts with an open position and has no exit flag changes neither cash,
\* qty, entry_price, entry_time nor the ledger, and an entry is only ever
\* executed on the bar that carries the entry flag (nothing is queued).
C1_SinglePosition ==
    [][Stepped =>
        /\ (Gt(position, Zero) /\ ~row'.signal_exit /\ row'.signal_long)
              => UNCHANGED <<cash, position, entry_price, entry_time, trades>>
        /\ \A k \in 1..Len(NewFills) :
              NewFills[k].kind = "entry"
                 => row'.signal_long /\ NewFills[k].bar = i
        /\ OpenCount(fills') \in {0, 1}
        /\ (OpenCount(fills') = 1) <=> Gt(position', Zero)]_vars

\* A bar with a true entry flag and no exit flag was evaluated while a
\* position opened on an earlier bar was held.
C1_Witness ==
    /\ i >= 2
    /\ Gt(position, Zero)
    /\ row.signal_long
    /\ ~row.signal_exit
    /\ ~Untradable(row)
    /\ Last(fills).bar < i - 1

\* C2: within a bar the exit runs before the entry: the fills of one bar are
\* at most an exit followed by an entry, never an entry followed by an exit;
\* an exit closes a position opened on an earlier bar; a bar that starts LONG
\* enters only after its own exit; every fill is priced at the bar's
\* next_open.
C2_ExitBeforeEntry ==
    [][Stepped =>
        LET new == NewFills IN
        /\ Len(new) <= 2
        /\ Len(new) = 2 => new[1].kind = "exit" /\ new[2].kind = "entry"
        /\ \A k \in 1..Len(new) :
              /\ new[k].price = row'.next_open
              /\ new[k].bar = i
              /\ new[k].kind = "exit"
                    => /\ k = 1
                       /\ Gt(position, Zero)
                       /\ Len(fills) > 0
                       /\ Last(fills).kind = "entry"
                       /\ Last(fills).bar < i
              /\ (new[k].kind = "entry" /\ Gt(position, Zero))
                    => k = 2 /\ new[1].kind = "exit"]_vars

\* A bar closed a position and opened the next one, both at its next_open.
C2_Witness ==
    /\ Len(fills) >= 3
    /\ fills[2].kind = "exit"
    /\ fills[3].kind = "entry"
    /\ fills[2].bar = fills[3].bar
    /\ fills[1].bar < fills[2].bar

\* C3: one equity point per processed bar on every path, for the bars
\* 0..N-2 only: the curve has N-1 entries indexed by the open_time of those
\* bars in order, and the final bar N-1 triggers no fill and no equity point.
C3_EquityCurveLength ==
    LET N == Len(open_time) IN
    /\ Len(equity_curve) = i
    /\ i <= N - 1
    /\ \A k \in 1..Len(fills) : fills[k].bar \in 0..(N - 2)
    /\ \A k \in 1..Len(trades) : trades[k].exit_time # open_time[N]
    /\ pc = "done" =>
          /\ Len(equity_series) = N - 1
          /\ \A k \in 1..(N - 1) :
                /\ equity_series[k].open_time = open_time[k]
                /\ equity_series[k].equity = equity_curve[k]

\* A finished run over four bars or more that entered, exited and skipped
\* its last processed bar.
C3_Witness ==
    /\ pc = "done"
    /\ Len(open_time) >= 4
    /\ Len(trades) >= 1
    /\ Untradable(row)

\* C4: every Trade has entry_time < exit_time, and the ledger is ordered and
\* non-overlapping: the exit_time of a trade is not later than the
\* entry_time of the next one.
C4_LedgerOrdered ==
    /\ \A k \in 1..Len(trades) : trades[k].entry_time < trades[k].exit_time
    /\ \A k \in 1..(Len(trades) - 1) :
          trades[k].exit_time <= trades[k + 1].entry_time

\* Two trades, the second entered on the bar that closed the first.
C4_Witness ==
    /\ Len(trades) >= 2
    /\ trades[1].exit_time = trades[2].entry_time

\* C5: an entry at fill price P with quantity Q takes Q*P*(1+f) out of the
\* cash, the matching exit at P' puts Q*P'*(1-f) back, and the exit sells the
\* very quantity that was bought, leaving no position.
C5_FeeConservation ==
    [][Stepped =>
        LET new == NewFills
            paid(k) == Mul(Mul(new[k].qty, new[k].price), Add(One, fee_rate))
            got(k) == Mul(Mul(new[k].qty, new[k].price), Sub(One, fee_rate))
        IN
        /\ (Len(new) = 1 /\ new[1].kind = "entry")
              => /\ Sub(cash, cash') = paid(1)
                 /\ position' = new[1].qty
        /\ (Len(new) >= 1 /\ new[1].kind = "exit")
              => /\ new[1].qty = position
                 /\ new[1].qty = Last(fills).qty
                 /\ Last(fills).kind = "entry"
                 /\ Len(new) = 1
                       => Sub(cash', cash) = got(1) /\ position' = Zero
                 /\ Len(new) = 2
                       => /\ Sub(Add(cash, got(1)), cash') = paid(2)
                          /\ position' = new[2].qty]_vars

\* A position bought at one price was sold at another with a positive fee.
C5_Witness ==
    /\ Len(fills) >= 2
    /\ fills[1].kind = "entry"
    /\ fills[2].kind = "exit"
    /\ fills[1].price # fills[2].price
    /\ Gt(fee_rate, Zero)
    /\ Len(trades) = 1

\* C6: on a bar that performs neither an entry nor an exit the equity point
\* equals the previous one when FLAT and moves by qty*(close - previous
\* close) when LONG.
C6_EquityContinuity ==
    [][(Stepped /\ i >= 1 /\ Len(fills') = Len(fills)) =>
        IF position = Zero
        THEN Last(equity_curve') = Last(equity_curve)
        ELSE Sub(Last(equity_curve'), Last(equity_curve))
                = Mul(position, Sub(row'.close, row.close))]_vars

\* A held position was marked to market on a bar without a fill and the
\* equity moved.
C6_Witness ==
    /\ i >= 2
    /\ Gt(position, Zero)
    /\ Last(fills).bar < i - 1
    /\ equity_curve[i] # equity_curve[i - 1]

----------------------------------------------------------------------------
(* The signal functions.  A DataFrame is a record of columns; the pandas   *)
(* operations are written out on the columns.                              *)

NRows(frame) == Len(frame.open_time)

Rng(frame) == 1..NRows(frame)

\* A column computed row by row, stored as a sequence.
Column(f) == SubSeq(f, 1, Len(f))

\* Series.shift(k): row j takes the value of row j - k, NaN where there is
\* no such row.
Shift(col, k) ==
    Column([j \in 1..Len(col) |->
               IF j - k \in 1..Len(col) THEN col[j - k] ELSE NaN])

\* col[lo] + ... + col[hi], summed by halves
RECURSIVE SumRange(_, _, _)
SumRange(col, lo, hi) ==
    IF lo > hi THEN Zero
    ELSE IF lo = hi THEN col[lo]
    ELSE LET mid == (lo + hi) \div 2
         IN  Add(SumRange(col, lo, mid), SumRange(col, mid + 1, hi))

\* Series.rolling(window=w, min_periods=w).mean()
RollingMean(col, w) ==
    Column([j \in 1..Len(col) |->
               IF j < w THEN NaN
               ELSE Div(SumRange(col, j - w + 1, j), Num(w))])

\* The first n values of Series.ewm(alpha=a, adjust=False).mean() of a
\* column without NaN: y[0] = x[0], y[j] = (1 - a) * y[j-1] + a * x[j].
RECURSIVE EwmSeq(_, _, _)
EwmSeq(col, a, n) ==
    IF n <= 0 THEN <<>>
    ELSE IF n = 1 THEN <<col[1]>>
    ELSE LET y == EwmSeq(col, a, n - 1)
         IN  Append(y, Add(Mul(Sub(One, a), y[n - 1]), Mul(a, col[n])))

Ewm(col, a) == EwmSeq(col, a, Len(col))

\* Series.ewm(alpha=a, adjust=False).mean().shift(k).  For k > 0 the last k
\* values of the average drop off the table; they are not computed.
EwmShift(col, a, k) ==
    LET n == Len(col)
        m == IF k > 0 THEN n - k ELSE n
        y == EwmSeq(col, a, m)
    IN  Column([j \in 1..n |-> IF j - k \in 1..m THEN y[j - k] ELSE NaN])

\* ewm(span=n): alpha = 2 / (n + 1)
SpanAlpha(n) == Rat(2, n + 1)

\* the table with one more row
AppendBar(frame, bar) ==
    [c \in DOMAIN frame |-> Append(frame[c], bar[c])]

\* A bar whose four prices are all p, stamped t.
FlatBar(t, p) ==
    [open_time |-> t, open |-> Num(p), high |-> Num(p), low |-> Num(p),
     close |-> Num(p)]

\* A bar that opens at its median price p, ranges one tick either way and
\* closes at c.
SpreadBar(t, p, c) ==
    [open_time |-> t, open |-> Num(p), high |-> Num(p + 1),
     low |-> Num(p - 1), close |-> Num(c)]

\* The table of the bars FlatBar(j, prices[j]).
PriceFrame(prices) ==
    [open_time |-> [j \in 1..Len(prices) |-> j],
     open |-> [j \in 1..Len(prices) |-> Num(prices[j])],
     high |-> [j \in 1..Len(prices) |-> Num(prices[j])],
     low |-> [j \in 1..Len(prices) |-> Num(prices[j])],
     close |-> [j \in 1..Len(prices) |-> Num(prices[j])]]

\* n bars of a market that stands still at p.
FlatFrame(n, p) == PriceFrame([j \in 1..n |-> p])

(* ---- sma.py ---- *)

SMA_20_window == 20
SMA_50_window == 50

\* sma.py 19-36.  The EMA_20 and EMA_50 columns the function also writes are
\* read by no function of the repository and are left out.
sma_add_indicators(frame) ==
    ("SMA_20" :> RollingMean(frame.close, SMA_20_window))
    @@ ("SMA_50" :> RollingMean(frame.close, SMA_50_window))
    @@ frame

\* Mutant: the column is shifted the wrong way and reads the next bar.
sma_prev_lookahead(col) == Shift(col, 0 - 1)

\* sma.py 52-53: `out[...].shift(1)`
sma_prev(col) == Shift(col, 1)

\* Mutant: the golden cross asks for fast strictly below slow before.
sma_golden_cross_strict(fast_prev, slow_prev, fast, slow) ==
    Lt(fast_prev, slow_prev) /\ Gt(fast, slow)

\* Mutant: the flag is level-triggered, it forgets the previous bar.
sma_golden_cross_level(fast_prev, slow_prev, fast, slow) ==
    Gt(fast, slow)

\* sma.py 56-59
sma_golden_cross(fast_prev, slow_prev, fast, slow) ==
    Le(fast_prev, slow_prev) /\ Gt(fast, slow)

\* Mutant: the death cross forgets the current bar.
sma_death_cross_prev_only(fast_prev, slow_prev, fast, slow) ==
    Ge(fast_prev, slow_prev)

\* sma.py 62-65
sma_death_cross(fast_prev, slow_prev, fast, slow) ==
    Ge(fast_prev, slow_prev) /\ Lt(fast, slow)

\* sma.py 40-70
sma_compute_signals(frame) ==
    LET out == IF "SMA_20" \notin DOMAIN frame \/ "SMA_50" \notin DOMAIN frame
               THEN sma_add_indicators(frame)
               ELSE frame
        SMA_20_prev == sma_prev(out.SMA_20)
        SMA_50_prev == sma_prev(out.SMA_50)
    IN  ("SMA_20_prev" :> SMA_20_prev)
        @@ ("SMA_50_prev" :> SMA_50_prev)
        @@ ("signal_long" :>
               Column([j \in Rng(out) |->
                   sma_golden_cross(SMA_20_prev[j], SMA_50_prev[j],
                                    out.SMA_20[j], out.SMA_50[j])]))
        @@ ("signal_exit" :>
               Column([j \in Rng(out) |->
                   sma_death_cross(SMA_20_prev[j], SMA_50_prev[j],
                                   out.SMA_20[j], out.SMA_50[j])]))
        @@ ("next_open" :> Shift(out.open, 0 - 1))
        @@ out

(* ---- ema.py ---- *)

\* Mutant: equal periods are let through.
ema_rejects_greater_only(fast, slow) == fast > slow

\* ema.py 13-14: the ValueError of add_ema_indicators
ema_rejects(fast, slow) == fast >= slow

\* ema.py 16-22, the columns f"EMA_{fast}" and f"EMA_{slow}"
ema_add_ema_indicators(frame, fast, slow) ==
    ("EMA_fast" :> Ewm(frame.close, SpanAlpha(fast)))
    @@ ("EMA_slow" :> Ewm(frame.close, SpanAlpha(slow)))
    @@ frame

\* ema.py 37-38
ema_prev(col) == Shift(col, 1)

\* ema.py 41-44
ema_golden_cross(fast_prev, slow_prev, fast, slow) ==
    Le(fast_prev, slow_prev) /\ Gt(fast, slow)

\* ema.py 47-50
ema_death_cross(fast_prev, slow_prev, fast, slow) ==
    Ge(fast_prev, slow_prev) /\ Lt(fast, slow)

\* ema.py 25-55, for fast < slow
ema_compute_signals(frame, fast, slow) ==
    LET out == ema_add_ema_indicators(frame, fast, slow)
        EMA_fast_prev == ema_prev(out.EMA_fast)
        EMA_slow_prev == ema_prev(out.EMA_slow)
    IN  ("EMA_fast_prev" :> EMA_fast_prev)
        @@ ("EMA_slow_prev" :> EMA_slow_prev)
        @@ ("signal_long" :>
               Column([j \in Rng(out) |->
                   ema_golden_cross(EMA_fast_prev[j], EMA_slow_prev[j],
                                    out.EMA_fast[j], out.EMA_slow[j])]))
        @@ ("signal_exit" :>
               Column([j \in Rng(out) |->
                   ema_death_cross(EMA_fast_prev[j], EMA_slow_prev[j],
                                   out.EMA_fast[j], out.EMA_slow[j])]))
        @@ ("next_open" :> Shift(out.open, 0 - 1))
        @@ out

(* ---- alligator.py ---- *)

JawPeriod == 13
JawShift == 8
TeethPeriod == 8
TeethShift == 5
LipsPeriod == 5
LipsShift == 3

\* alligator.py 7-12 with the .shift(k) of lines 25-27:
\* series.ewm(alpha=1/period, adjust=False).mean().shift(k)
smma_shift(col, period, k) == EwmShift(col, Rat(1, period), k)

\* alligator.py 23
alligator_price(frame) ==
    Column([j \in Rng(frame) |->
               Div(Add(frame.high[j], frame.low[j]), Num(2))])

\* Mutant: the lips are shifted backwards and show the average of a bar
\* that is still to come.
alligator_lips_lookahead(frame) ==
    smma_shift(alligator_price(frame), LipsPeriod, 0 - LipsShift)

\* alligator.py 25
alligator_jaw(frame) ==
    smma_shift(alligator_price(frame), JawPeriod, JawShift)
\* alligator.py 26
alligator_teeth(frame) ==
    smma_shift(alligator_price(frame), TeethPeriod, TeethShift)
\* alligator.py 27
alligator_lips(frame) ==
    smma_shift(alligator_price(frame), LipsPeriod, LipsShift)

\* alligator.py 14-31
add_alligator(frame) ==
    ("jaw" :> alligator_jaw(frame))
    @@ ("teeth" :> alligator_teeth(frame))
    @@ ("lips" :> alligator_lips(frame))
    @@ ("next_open" :> Shift(frame.open, 0 - 1))
    @@ frame

\* a boolean column: Series.shift(1).fillna(False)
ShiftFill(col) ==
    Column([j \in 1..Len(col) |-> IF j > 1 THEN col[j - 1] ELSE FALSE])

\* alligator.py 48
alligator_long_trend(f) ==
    Column([j \in Rng(f) |-> Gt(f.lips[j], f.teeth[j]) /\ Gt(f.teeth[j], f.jaw[j])])

\* alligator.py 49
alligator_short_trend(f) ==
    Column([j \in Rng(f) |-> Lt(f.lips[j], f.teeth[j]) /\ Lt(f.teeth[j], f.jaw[j])])

\* alligator.py 52-56
alligator_long_slope(f) ==
    LET lips_prev == Shift(f.lips, 1)
        teeth_prev == Shift(f.teeth, 1)
        jaw_prev == Shift(f.jaw, 1)
    IN  Column([j \in Rng(f) |->
                   /\ Gt(f.lips[j], lips_prev[j])
                   /\ Gt(f.teeth[j], teeth_prev[j])
                   /\ Gt(f.jaw[j], jaw_prev[j])])

\* alligator.py 57-61
alligator_short_slope(f) ==
    LET lips_prev == Shift(f.lips, 1)
        teeth_prev == Shift(f.teeth, 1)
        jaw_prev == Shift(f.jaw, 1)
    IN  Column([j \in Rng(f) |->
                   /\ Lt(f.lips[j], lips_prev[j])
                   /\ Lt(f.teeth[j], teeth_prev[j])
                   /\ Lt(f.jaw[j], jaw_prev[j])])

\* Mutant: the edge is taken of the whole entry condition.
alligator_long_entry_whole_edge(f) ==
    LET long_trend == alligator_long_trend(f)
        long_slope == alligator_long_slope(f)
        cond == Column([j \in Rng(f) |->
                           /\ long_trend[j]
                           /\ long_slope[j]
                           /\ Gt(f.close[j], f.lips[j])])
        cond_prev == ShiftFill(cond)
    IN  Column([j \in Rng(f) |-> cond[j] /\ ~cond_prev[j]])

\* alligator.py 64-69
alligator_long_entry(f) ==
    LET long_trend == alligator_long_trend(f)
        long_slope == alligator_long_slope(f)
        trend_prev == ShiftFill(long_trend)
    IN  Column([j \in Rng(f) |->
                   /\ long_trend[j]
                   /\ long_slope[j]
                   /\ Gt(f.close[j], f.lips[j])
                   /\ ~trend_prev[j]])

\* Mutant: the short entry is level-triggered, it forgets the previous bar.
alligator_short_entry_level(f) ==
    LET short_trend == alligator_short_trend(f)
        short_slope == alligator_short_slope(f)
    IN  Column([j \in Rng(f) |->
                   /\ short_trend[j]
                   /\ short_slope[j]
                   /\ Lt(f.close[j], f.lips[j])])

\* alligator.py 71-76
alligator_short_entry(f) ==
    LET short_trend == alligator_short_trend(f)
        short_slope == alligator_short_slope(f)
        trend_prev == ShiftFill(short_trend)
    IN  Column([j \in Rng(f) |->
                   /\ short_trend[j]
                   /\ short_slope[j]
                   /\ Lt(f.close[j], f.lips[j])
                   /\ ~trend_prev[j]])

\* alligator.py 79-82
alligator_long_exit(f) ==
    Column([j \in Rng(f) |-> Lt(f.close[j], f.jaw[j]) \/ Le(f.lips[j], f.teeth[j])])

\* alligator.py 84-87
alligator_short_exit(f) ==
    Column([j \in Rng(f) |-> Gt(f.close[j], f.jaw[j]) \/ Ge(f.lips[j], f.teeth[j])])

\* Mutant: an exit bar that carries the opposite entry flag reverses the
\* position (the lines 106-107 and 114-115, which the source comments out).
alligator_next_pos_reversing(current_pos, long_entry, short_entry, long_exit, short_exit) ==
    IF current_pos = 0
    THEN IF long_entry THEN 1
         ELSE IF short_entry THEN 0 - 1
         ELSE 0
    ELSE IF current_pos = 1
    THEN IF long_exit THEN (IF short_entry THEN 0 - 1 ELSE 0) ELSE 1
    ELSE IF short_exit THEN (IF long_entry THEN 1 ELSE 0) ELSE 0 - 1

\* alligator.py 94-115: the body of the position loop for one row
alligator_next_pos(current_pos, long_entry, short_entry, long_exit, short_exit) ==
    IF current_pos = 0
    THEN IF long_entry THEN 1
         ELSE IF short_entry THEN 0 - 1
         ELSE 0
    ELSE IF current_pos = 1
    THEN IF long_exit THEN 0 ELSE 1
    ELSE IF short_exit THEN 0 ELSE 0 - 1

\* alligator.py 90-119: the position column, rows 1..n
RECURSIVE alligator_position(_, _)
alligator_position(f, n) ==
    IF n = 0 THEN <<>>
    ELSE LET before == alligator_position(f, n - 1)
             current_pos == IF n = 1 THEN 0 ELSE before[n - 1]
         IN  Append(before,
                    alligator_next_pos(current_pos,
                                       f.long_entry[n], f.short_entry[n],
                                       f.long_exit[n], f.short_exit[n]))

\* alligator.py 33-121
generate_alligator_signals(frame) ==
    LET f == add_alligator(frame)
        g == ("long_entry" :> alligator_long_entry(f))
             @@ ("short_entry" :> alligator_short_entry(f))
             @@ ("long_exit" :> alligator_long_exit(f))
             @@ ("short_exit" :> alligator_short_exit(f))
             @@ f
    IN  ("position" :> alligator_position(g, NRows(g))) @@ g

----------------------------------------------------------------------------
(* The signal functions at work: a bar arrives and the signal function of  *)
(* the strategy is called on the table of all the bars so far.             *)

MaxSigBars == 4     \* free bars of an sma / ema table
MaxAlligatorBars == 3   \* free bars of an alligator table
MaxSpan == 3        \* largest EMA span

\* sma: the free bars follow a still market one bar short of the slow
\* window, so that SMA_50 becomes defined on the first free bar
WarmUp == SMA_50_window - 1

\* prices of the free bars
SigPrices == 1..4
AlligatorPrices == 2..4

\* the bars an alligator table opens with, nine bars so that the three
\* lines are defined once the free bars arrive: a market that rose, dipped
\* and recovered, one that swings upwards, and their mirror images
AlligatorOpenings ==
    {<<3, 4, 4, 4, 4, 2, 4, 4, 4>>, <<3, 2, 2, 2, 2, 4, 2, 2, 2>>,
     <<3, 4, 2, 3, 4, 2, 4, 2, 4>>, <<3, 2, 4, 3, 2, 4, 2, 4, 2>>}
AlligatorOpeningLen == Len(<<3, 4, 4, 4, 4, 2, 4, 4, 4>>)

\* (fast, slow) handed to ema.compute_signals
EmaParams == {<<f, sl>> : f \in 1..MaxSpan, sl \in 1..MaxSpan}

InitSig ==
    /\ strategy \in {"sma", "ema", "alligator"}
    /\ pc = "signals"
    \* sma: whether the caller passes add_indicators(df) (backtest.py 100-101)
    \* or the bars alone
    /\ params \in CASE strategy = "sma" -> {<<TRUE>>, <<FALSE>>}
                    [] strategy = "ema" -> EmaParams
                    [] strategy = "alligator" -> {<<>>}
    /\ df \in CASE strategy = "sma" -> {FlatFrame(WarmUp, 2)}
                [] strategy = "ema" -> {FlatFrame(0, 2)}
                [] strategy = "alligator" ->
                      {PriceFrame(o) : o \in AlligatorOpenings}
    /\ df_sig = NoFrame
    /\ initial_equity = Zero
    /\ fee_rate = Zero
    /\ open_time = <<>>
    /\ i = 0
    /\ row = NoRow
    /\ cash = Zero
    /\ position = Zero
    /\ entry_price = None
    /\ entry_time = NoTime
    /\ trades = <<>>
    /\ equity_curve = <<>>
    /\ equity_series = <<>>
    /\ fills = <<>>
    /\ stats = NoStats
    /\ pm = NoManager
    /\ runs = NoRuns
    /\ call = NoCall

call_sma_compute_signals ==
    /\ strategy = "sma"
    /\ NRows(df) < WarmUp + MaxSigBars
    /\ \E p \in SigPrices :
          \E d \in {AppendBar(df, FlatBar(NRows(df) + 1, p))} :
             /\ df' = d
             /\ df_sig' = sma_compute_signals(
                              IF params[1] THEN sma_add_indicators(d) ELSE d)
    /\ UNCHANGED <<strategy, pc, params, call, runvars, pm, runs>>

call_ema_compute_signals ==
    /\ strategy = "ema"
    /\ NRows(df) < MaxSigBars + 1
    /\ \E p \in SigPrices :
          \E d \in {AppendBar(df, FlatBar(NRows(df) + 1, p))} :
             /\ df' = d
             /\ IF ema_rejects(params[1], params[2])
                THEN pc' = "ValueError" /\ df_sig' = NoFrame
                ELSE pc' = "signals"
                     /\ df_sig' = ema_compute_signals(d, params[1], params[2])
    /\ UNCHANGED <<strategy, params, call, runvars, pm, runs>>

call_generate_alligator_signals ==
    /\ strategy = "alligator"
    /\ NRows(df) < AlligatorOpeningLen + MaxAlligatorBars
    /\ \E p \in AlligatorPrices, c \in -1..1 :
          \E d \in {AppendBar(df, SpreadBar(NRows(df) + 1, p, p + c))} :
             /\ df' = d
             /\ df_sig' = generate_alligator_signals(d)
    /\ UNCHANGED <<strategy, pc, params, call, runvars, pm, runs>>

NextSig ==
    \/ call_sma_compute_signals
    \/ call_ema_compute_signals
    \/ call_generate_alligator_signals

SpecSig == InitSig /\ [][NextSig]_vars

----------------------------------------------------------------------------
(* Selecting a strategy by name: backtest/signal_generator.py and          *)
(* trader/trader_bot.py.                                                   *)

MaxDispatchBars == 3    \* bars of the table handed to the dispatching functions

KnownStrategies == {"sma", "ema", "alligator"}
StrategyNames == KnownStrategies \cup {"macd"}

\* ema.py 25: the defaults of compute_signals(df, fast=20, slow=50)
EmaDefaultFast == 20
EmaDefaultSlow == 50

\* trader_bot.py 73-78, 104: the keyword arguments best_strategy passes to
\* apply_strategy: fast/slow pairs with fast < slow, or none
BestStrategyKwargs == {<<>>, <<5, 30>>}

\* How a call ends: with an exception, or with a value (a table, None, or
\* the pair of flags of the last but one row).
Raised(e) == [raised |-> e, value |-> "nothing", df_sig |-> NoFrame, flags |-> <<>>]
Returned(kind, table, fl) ==
    [raised |-> "none", value |-> kind, df_sig |-> table, flags |-> fl]

\* signal_generator.py 7-14: df_sig after the if / elif chain.  The module
\* backtest.alligator has no attribute compute_signals.
generate_signal_select(frame, name) ==
    CASE name = "sma" -> Returned("table", sma_compute_signals(frame), <<>>)
      [] name = "ema" ->
            IF ema_rejects(EmaDefaultFast, EmaDefaultSlow)
            THEN Raised("ValueError")
            ELSE Returned("table",
                          ema_compute_signals(frame, EmaDefaultFast,
                                              EmaDefaultSlow), <<>>)
      [] name = "alligator" -> Raised("AttributeError")
      [] OTHER -> Returned("None", NoFrame, <<>>)

\* signal_generator.py 6-21
generate_signal(frame, name, trader) ==
    LET sel == generate_signal_select(frame, name)
    IN  IF sel.raised # "none" THEN sel
        ELSE IF ~trader THEN sel
        ELSE IF sel.value = "None" THEN Raised("AttributeError")
        ELSE IF NRows(sel.df_sig) < 2 THEN Raised("IndexError")
        ELSE Returned("flags", NoFrame,
                      <<sel.df_sig.signal_long[NRows(sel.df_sig) - 1],
                        sel.df_sig.signal_exit[NRows(sel.df_sig) - 1]>>)

\* trader_bot.py 45-56.  generate_signal takes no keyword but `trader`, so
\* any **params makes the call raise TypeError; the bare `except` turns
\* every exception into ValueError("Unknown strategy: ...").
apply_strategy(frame, name, kwargs) ==
    LET r == IF kwargs # <<>> THEN Raised("TypeError")
             ELSE generate_signal(frame, name, FALSE)
    IN  IF r.raised # "none" THEN Raised("ValueError") ELSE r

\* trader_bot.py 70-106: the candidates in the order best_strategy tries
\* them, each a name and the keyword arguments of its apply_strategy call
best_strategy_pairs ==
    LET fast_list == <<5, 7, 9, 10, 15, 20>>
        slow_list == <<30, 40, 50, 60, 100, 150, 200>>
        n == Len(fast_list) * Len(slow_list)
        all == [k \in 1..n |->
                   <<fast_list[((k - 1) \div Len(slow_list)) + 1],
                     slow_list[((k - 1) % Len(slow_list)) + 1]>>]
    IN  SelectSeq(all, LAMBDA pr : ~(pr[1] >= pr[2]))

best_strategy_candidates ==
    [k \in 1..Len(best_strategy_pairs) |-> <<"sma", best_strategy_pairs[k]>>]
    \o [k \in 1..Len(best_strategy_pairs) |-> <<"ema", best_strategy_pairs[k]>>]
    \o << <<"alligator", <<>> >> >>

\* trader_bot.py 79, 96, 105: `_, _, stats = BT.backtest(name, df_sig)` once
\* apply_strategy has ended as sig.  backtest/backtest.py defines no
\* function `backtest`, so the call raises AttributeError whenever it is
\* reached.
best_strategy_backtest(sig) ==
    IF sig.raised # "none"
    THEN [raised |-> sig.raised, stats |-> NoStats]
    ELSE [raised |-> "AttributeError", stats |-> NoStats]

\* trader_bot.py 78-79, 95-96, 104-105: one candidate
best_strategy_evaluate(frame, cand) ==
    best_strategy_backtest(apply_strategy(frame, cand[1], cand[2]))

\* trader_bot.py 68-106: the sweep from candidate k on, all_results holding
\* the results of the candidates before k; it ends with the first exception
RECURSIVE best_strategy_sweep(_, _, _)
best_strategy_collect(frame, k, all_results, cand, ev) ==
    IF ev.raised # "none"
    THEN [raised |-> ev.raised, all_results |-> all_results]
    ELSE best_strategy_sweep(frame, k + 1,
             Append(all_results,
                    [name |-> cand[1], params |-> cand[2],
                     stats |-> ev.stats]))
best_strategy_sweep(frame, k, all_results) ==
    IF k > Len(best_strategy_candidates)
    THEN [raised |-> "none", all_results |-> all_results]
    ELSE best_strategy_collect(
             frame, k, all_results, best_strategy_candidates[k],
             best_strategy_evaluate(frame, best_strategy_candidates[k]))

\* order of two sharpe_approx values
SharpeLess(x, y) ==
    \/ x.sign < y.sign
    \/ x.sign = y.sign /\ x.sign = 1 /\ Lt(x.ratio_sq, y.ratio_sq)
    \/ x.sign = y.sign /\ x.sign = 0 - 1 /\ Gt(x.ratio_sq, y.ratio_sq)

\* trader_bot.py 118: max(all_results, key=sharpe_approx), the first of the
\* largest
best_strategy_by_sharpe(all_results) ==
    CHOOSE k \in 1..Len(all_results) :
       /\ \A m \in 1..Len(all_results) :
             ~SharpeLess(all_results[k].stats.sharpe_approx,
                         all_results[m].stats.sharpe_approx)
       /\ \A m \in 1..(k - 1) :
             SharpeLess(all_results[m].stats.sharpe_approx,
                        all_results[k].stats.sharpe_approx)

\* trader_bot.py 108-126, once the sweep has ended.  The value returned is
\* the `best` of line 118, which replaces the one of line 108.
best_strategy_return(sweep) ==
    IF sweep.raised # "none"
    THEN [raised |-> sweep.raised, all_results |-> sweep.all_results,
          best_name |-> "nothing", best_params |-> <<>>]
    ELSE LET best == sweep.all_results[
                         best_strategy_by_sharpe(sweep.all_results)]
         IN  [raised |-> "none", all_results |-> sweep.all_results,
              best_name |-> best.name, best_params |-> best.params]

\* trader_bot.py 58-126
best_strategy(frame) ==
    best_strategy_return(best_strategy_sweep(frame, 1, <<>>))

InitDispatch ==
    /\ strategy \in StrategyNames
    /\ pc = "dispatch"
    /\ params = <<>>
    /\ df = FlatFrame(0, 2)
    /\ df_sig = NoFrame
    /\ call = NoCall
    /\ initial_equity = Zero
    /\ fee_rate = Zero
    /\ open_time = <<>>
    /\ i = 0
    /\ row = NoRow
    /\ cash = Zero
    /\ position = Zero
    /\ entry_price = None
    /\ entry_time = NoTime
    /\ trades = <<>>
    /\ equity_curve = <<>>
    /\ equity_series = <<>>
    /\ fills = <<>>
    /\ stats = NoStats
    /\ pm = NoManager
    /\ runs = NoRuns

call_generate_signal ==
    /\ pc = "dispatch"
    /\ NRows(df) < MaxDispatchBars
    /\ \E p \in SigPrices, trader \in BOOLEAN :
          \E d \in {AppendBar(df, FlatBar(NRows(df) + 1, p))} :
             \E r \in {generate_signal(d, strategy, trader)} :
                /\ df' = d
                /\ df_sig' = r.df_sig
                /\ call' = [fn |-> "generate_signal", trader |-> trader,
                            kwargs |-> <<>>, raised |-> r.raised,
                            value |-> r.value, flags |-> r.flags]
    /\ UNCHANGED <<strategy, pc, params, runvars, pm, runs>>

call_apply_strategy ==
    /\ pc = "dispatch"
    /\ NRows(df) < MaxDispatchBars
    /\ \E p \in SigPrices, kwargs \in BestStrategyKwargs :
          \E d \in {AppendBar(df, FlatBar(NRows(df) + 1, p))} :
             \E r \in {apply_strategy(d, strategy, kwargs)} :
                /\ df' = d
                /\ df_sig' = r.df_sig
                /\ call' = [fn |-> "apply_strategy", trader |-> FALSE,
                            kwargs |-> kwargs, raised |-> r.raised,
                            value |-> r.value, flags |-> r.flags]
    /\ UNCHANGED <<strategy, pc, params, runvars, pm, runs>>

\* trader_bot.py 149: best_strategy on the bars fetched so far
call_best_strategy ==
    /\ pc = "dispatch"
    /\ NRows(df) < MaxDispatchBars
    /\ \E p \in SigPrices :
          \E d \in {AppendBar(df, FlatBar(NRows(df) + 1, p))} :
             \E r \in {best_strategy(d)} :
                /\ df' = d
                /\ df_sig' = NoFrame
                /\ call' = [fn |-> "best_strategy", raised |-> r.raised,
                            all_results |-> r.all_results,
                            best_name |-> r.best_name,
                            best_params |-> r.best_params]
    /\ UNCHANGED <<strategy, pc, params, runvars, pm, runs>>

NextDispatch ==
    \/ call_generate_signal
    \/ call_apply_strategy
    \/ call_best_strategy

SpecDispatch == InitDispatch /\ [][NextDispatch]_vars

----------------------------------------------------------------------------
(* The indicator and signal functions called directly on a table of the    *)
(* caller, as backtest/backtest.py does with df_raw: df is the caller's    *)
(* table, df_sig the table the call returned.                              *)

MaxRawBars == 3     \* longest table of free bars handed to a direct call

\* the tables of the caller: the alligator openings and every short table
RawFrames ==
    {PriceFrame(o) : o \in AlligatorOpenings}
    \cup {PriceFrame(ps) : ps \in UNION {[1..n -> SigPrices] : n \in 1..MaxRawBars}}

\* The caller's table after the call.
\* sma.py 25: `out = df.copy()`, every column is written to the copy
sma_add_indicators_leaves(frame) == frame
\* sma.py 47: `out = df.copy()`
sma_compute_signals_leaves(frame) == frame
\* ema.py 16: `out = df.copy()`
ema_add_ema_indicators_leaves(frame) == frame
\* ema.py 32: out is the copy made by add_ema_indicators
ema_compute_signals_leaves(frame) == frame
\* alligator.py 25-31: the four columns are assigned to df itself, and df
\* is what the function returns
add_alligator_leaves(frame) == add_alligator(frame)
\* alligator.py 44-45: `df = df.copy()` comes before add_alligator(df)
generate_alligator_signals_leaves(frame) == frame

InitPure ==
    /\ strategy \in KnownStrategies
    /\ pc = "direct"
    /\ params = <<>>
    /\ df \in RawFrames
    /\ df_sig = NoFrame
    /\ call = NoCall
    /\ initial_equity = Zero
    /\ fee_rate = Zero
    /\ open_time = <<>>
    /\ i = 0
    /\ row = NoRow
    /\ cash = Zero
    /\ position = Zero
    /\ entry_price = None
    /\ entry_time = NoTime
    /\ trades = <<>>
    /\ equity_curve = <<>>
    /\ equity_series = <<>>
    /\ fills = <<>>
    /\ stats = NoStats
    /\ pm = NoManager
    /\ runs = NoRuns

\* backtest.py 100
direct_sma_add_indicators ==
    /\ pc = "direct" /\ strategy = "sma"
    /\ df_sig' = sma_add_indicators(df)
    /\ df' = sma_add_indicators_leaves(df)
    /\ call' = [fn |-> "sma.add_indicators", raised |-> "none"]
    /\ UNCHANGED <<strategy, pc, params, runvars, pm, runs>>

\* backtest.py 101
direct_sma_compute_signals ==
    /\ pc = "direct" /\ strategy = "sma"
    /\ \E ind \in BOOLEAN :
          /\ df_sig' = sma_compute_signals(
                           IF ind THEN sma_add_indicators(df) ELSE df)
          /\ df' = sma_compute_signals_leaves(df)
    /\ call' = [fn |-> "sma.compute_signals", raised |-> "none"]
    /\ UNCHANGED <<strategy, pc, params, runvars, pm, runs>>

direct_ema_add_ema_indicators ==
    /\ pc = "direct" /\ strategy = "ema"
    /\ \E pr \in EmaParams :
          /\ params' = pr
          /\ df' = ema_add_ema_indicators_leaves(df)
          /\ IF ema_rejects(pr[1], pr[2])
             THEN /\ df_sig' = NoFrame
                  /\ call' = [fn |-> "ema.add_ema_indicators",
                              raised |-> "ValueError"]
             ELSE /\ df_sig' = ema_add_ema_indicators(df, pr[1], pr[2])
                  /\ call' = [fn |-> "ema.add_ema_indicators",
                              raised |-> "none"]
    /\ UNCHANGED <<strategy, pc, runvars, pm, runs>>

direct_ema_compute_signals ==
    /\ pc = "direct" /\ strategy = "ema"
    /\ \E pr \in EmaParams :
          /\ params' = pr
          /\ df' = ema_compute_signals_leaves(df)
          /\ IF ema_rejects(pr[1], pr[2])
             THEN /\ df_sig' = NoFrame
                  /\ call' = [fn |-> "ema.compute_signals",
                              raised |-> "ValueError"]
             ELSE /\ df_sig' = ema_compute_signals(df, pr[1], pr[2])
                  /\ call' = [fn |-> "ema.compute_signals",
                              raised |-> "none"]
    /\ UNCHANGED <<strategy, pc, runvars, pm, runs>>

\* backtest.py 109
direct_add_alligator ==
    /\ pc = "direct" /\ strategy = "alligator"
    /\ df_sig' = add_alligator(df)
    /\ df' = add_alligator_leaves(df)
    /\ call' = [fn |-> "alligator.add_alligator", raised |-> "none"]
    /\ UNCHANGED <<strategy, pc, params, runvars, pm, runs>>

\* backtest.py 110
direct_generate_alligator_signals ==
    /\ pc = "direct" /\ strategy = "alligator"
    /\ df_sig' = generate_alligator_signals(df)
    /\ df' = generate_alligator_signals_leaves(df)
    /\ call' = [fn |-> "alligator.generate_alligator_signals",
                raised |-> "none"]
    /\ UNCHANGED <<strategy, pc, params, runvars, pm, runs>>

NextPure ==
    \/ direct_sma_add_indicators
    \/ direct_sma_compute_signals
    \/ direct_ema_add_ema_indicators
    \/ direct_ema_compute_signals
    \/ direct_add_alligator
    \/ direct_generate_alligator_signals

SpecPure == InitPure /\ [][NextPure]_vars

----------------------------------------------------------------------------
(* trader/position_manager.py: the PositionManager that trader_bot.main    *)
(* constructs, under any sequence of calls of its three methods.           *)

MaxOrderPrice == 2  \* largest price, stop-loss or take-profit level
MaxOrderTime == 2   \* latest timestamp of an order

OrderPrices == {Num(p) : p \in 1..MaxOrderPrice}
OrderQtys == {One, Rat(1, 2)}
\* sl and tp of open_long: None by default, or a level
OrderLevels == {None} \cup OrderPrices
\* the price handed to should_exit: a price, or NaN
ExitPrices == {NaN} \cup OrderPrices

\* position_manager.py 8-14
PositionManager_init ==
    [active |-> FALSE, qty |-> Zero, entry_price |-> Zero,
     entry_time |-> NoTime, stop_loss |-> None, take_profit |-> None]

\* position_manager.py 16-23
open_long(self, price, qty, timestamp, sl, tp) ==
    [active |-> TRUE, qty |-> qty, entry_price |-> price,
     entry_time |-> timestamp, stop_loss |-> sl, take_profit |-> tp]

\* Mutant: the stop-loss triggers only strictly below the level.
should_exit_below_stop_only(self, price, exit_signal) ==
    IF exit_signal THEN TRUE
    ELSE IF self.stop_loss # None /\ Lt(price, self.stop_loss) THEN TRUE
    ELSE IF self.take_profit # None /\ Ge(price, self.take_profit) THEN TRUE
    ELSE FALSE

\* position_manager.py 25-40
should_exit(self, price, exit_signal) ==
    IF exit_signal THEN TRUE
    ELSE IF self.stop_loss # None /\ Le(price, self.stop_loss) THEN TRUE
    ELSE IF self.take_profit # None /\ Ge(price, self.take_profit) THEN TRUE
    ELSE FALSE

\* position_manager.py 42-49
close_position(self) ==
    [active |-> FALSE, qty |-> Zero, entry_price |-> Zero,
     entry_time |-> NoTime, stop_loss |-> None, take_profit |-> None]

\* trader_bot.py 144: `pm = PositionManager()`
InitManager ==
    /\ strategy \in KnownStrategies
    /\ pc = "trading"
    /\ pm = PositionManager_init
    /\ runs = NoRuns
    /\ call = NoCall
    /\ params = <<>>
    /\ df = NoFrame
    /\ df_sig = NoFrame
    /\ initial_equity = Zero
    /\ fee_rate = Zero
    /\ open_time = <<>>
    /\ i = 0
    /\ row = NoRow
    /\ cash = Zero
    /\ position = Zero
    /\ entry_price = None
    /\ entry_time = NoTime
    /\ trades = <<>>
    /\ equity_curve = <<>>
    /\ equity_series = <<>>
    /\ fills = <<>>
    /\ stats = NoStats

call_open_long ==
    /\ pc = "trading"
    /\ \E price \in OrderPrices, qty \in OrderQtys, timestamp \in 1..MaxOrderTime,
          sl \in OrderLevels, tp \in OrderLevels :
          pm' = open_long(pm, price, qty, timestamp, sl, tp)
    /\ call' = [fn |-> "open_long"]
    /\ UNCHANGED <<strategy, pc, params, df, df_sig, runvars, runs>>

call_should_exit ==
    /\ pc = "trading"
    /\ \E price \in ExitPrices, exit_signal \in BOOLEAN :
          call' = [fn |-> "should_exit", price |-> price,
                   exit_signal |-> exit_signal,
                   returned |-> should_exit(pm, price, exit_signal)]
    /\ UNCHANGED <<strategy, pc, params, df, df_sig, runvars, pm, runs>>

call_close_position ==
    /\ pc = "trading"
    /\ pm' = close_position(pm)
    /\ call' = [fn |-> "close_position"]
    /\ UNCHANGED <<strategy, pc, params, df, df_sig, runvars, runs>>

NextManager ==
    \/ call_open_long
    \/ call_should_exit
    \/ call_close_position

SpecManager == InitManager /\ [][NextManager]_vars

----------------------------------------------------------------------------
(* Properties of the signal functions.                                     *)

HasCol(frame, c) == c \in DOMAIN frame

\* The flags of row j of a signal table.
Flags(frame, j) ==
    IF HasCol(frame, "signal_long")
    THEN <<frame.signal_long[j], frame.signal_exit[j]>>
    ELSE <<frame.long_entry[j], frame.short_entry[j],
           frame.long_exit[j], frame.short_exit[j]>>

\* The fast and the slow average of a moving-average cross table.
FastCol(frame) == IF HasCol(frame, "SMA_20") THEN frame.SMA_20 ELSE frame.EMA_fast
SlowCol(frame) == IF HasCol(frame, "SMA_50") THEN frame.SMA_50 ELSE frame.EMA_slow

IsCrossTable(frame) == HasCol(frame, "signal_long")

Defined(x) == x.d # 0

\* Order of two defined numbers, by cross-multiplication.
Below(x, y) == x.n * y.d < y.n * x.d
NotAbove(x, y) == x.n * y.d <= y.n * x.d

\* The smoothed average of the bars 1..m alone, at bar m.
SmmaOfPrefix(frame, period, m) ==
    LET price == [j \in 1..m |-> Div(Add(frame.high[j], frame.low[j]), Num(2))]
    IN  Last(EwmSeq(price, Rat(1, period), m))

\* C8: the flags of row j are the same whatever bars follow bar j: a table
\* that gains a bar keeps the flags of all its rows; and the Alligator line
\* shown on row j is the average of the bars up to j - offset alone.
C8_Causality ==
    [][/\ \A j \in 1..NRows(df_sig) :
             j <= NRows(df_sig') => Flags(df_sig', j) = Flags(df_sig, j)
       /\ HasCol(df_sig', "jaw") =>
             \A j \in 1..NRows(df_sig') :
                /\ df_sig'.jaw[j] =
                      IF j > JawShift
                      THEN SmmaOfPrefix(df', JawPeriod, j - JawShift)
                      ELSE NaN
                /\ df_sig'.teeth[j] =
                      IF j > TeethShift
                      THEN SmmaOfPrefix(df', TeethPeriod, j - TeethShift)
                      ELSE NaN
                /\ df_sig'.lips[j] =
                      IF j > LipsShift
                      THEN SmmaOfPrefix(df', LipsPeriod, j - LipsShift)
                      ELSE NaN]_vars

\* A table whose last but one row carries a flag was computed again with
\* one more bar.
C8_Witness ==
    /\ NRows(df_sig) >= 2
    /\ \E k \in 1..Len(Flags(df_sig, 1)) : Flags(df_sig, NRows(df_sig) - 1)[k]

\* C9: in a moving-average cross table the entry flag of bar j is true
\* exactly when fast and slow are defined on the bars j-1 and j, fast <= slow
\* on j-1 and fast > slow on j; the exit flag exactly when fast >= slow on
\* j-1 and fast < slow on j; both are false on the first bar.
C9_CrossFlags ==
    IsCrossTable(df_sig) =>
        LET fast == FastCol(df_sig)
            slow == SlowCol(df_sig)
            defd(j) == /\ Defined(fast[j - 1])
                       /\ Defined(slow[j - 1])
                       /\ Defined(fast[j])
                       /\ Defined(slow[j])
        IN  \A j \in 1..NRows(df_sig) :
               /\ df_sig.signal_long[j] <=>
                     /\ j > 1
                     /\ defd(j)
                     /\ NotAbove(fast[j - 1], slow[j - 1])
                     /\ Below(slow[j], fast[j])
               /\ df_sig.signal_exit[j] <=>
                     /\ j > 1
                     /\ defd(j)
                     /\ NotAbove(slow[j - 1], fast[j - 1])
                     /\ Below(fast[j], slow[j])
               /\ j = 1 => ~df_sig.signal_long[j] /\ ~df_sig.signal_exit[j]

\* An SMA table with an entry flag, an exit flag, and a bar where the fast
\* average is above the slow one but the slow one was undefined the bar
\* before.
C9_Witness ==
    /\ HasCol(df_sig, "SMA_20")
    /\ \E j \in 1..NRows(df_sig) : df_sig.signal_long[j]
    /\ \E j \in 1..NRows(df_sig) : df_sig.signal_exit[j]
    /\ \E j \in 2..NRows(df_sig) :
          /\ ~Defined(df_sig.SMA_50[j - 1])
          /\ Gt(df_sig.SMA_20[j], df_sig.SMA_50[j])

\* C10 as claimed: between two entry flags there is a bar with fast < slow.
C10_AsClaimed ==
    IsCrossTable(df_sig) =>
        \A j, k \in 1..NRows(df_sig) :
           (j < k /\ df_sig.signal_long[j] /\ df_sig.signal_long[k])
              => /\ k > j + 1
                 /\ \E m \in (j + 1)..(k - 1) :
                       Lt(FastCol(df_sig)[m], SlowCol(df_sig)[m])

\* C10 as amended: an entry flag is never followed by one on the next bar,
\* and between two entry flags there is a bar where fast is not above slow
\* (fast < slow or fast = slow).
C10_NoRepeatedEntry ==
    IsCrossTable(df_sig) =>
        \A j, k \in 1..NRows(df_sig) :
           (j < k /\ df_sig.signal_long[j] /\ df_sig.signal_long[k])
              => /\ k > j + 1
                 /\ \E m \in (j + 1)..(k - 1) :
                       /\ Defined(FastCol(df_sig)[m])
                       /\ Defined(SlowCol(df_sig)[m])
                       /\ NotAbove(FastCol(df_sig)[m], SlowCol(df_sig)[m])

\* Two entry flags with nothing but a bar of fast = slow between them.
C10_Witness ==
    /\ IsCrossTable(df_sig)
    /\ \E j \in 1..NRows(df_sig) :
          /\ j + 2 <= NRows(df_sig)
          /\ df_sig.signal_long[j]
          /\ FastCol(df_sig)[j + 1] = SlowCol(df_sig)[j + 1]
          /\ df_sig.signal_long[j + 2]

IsAlligatorTable(frame) == HasCol(frame, "long_entry")

\* lips > teeth > jaw on row j (false while a line is undefined)
TrendUp(frame, j) ==
    Gt(frame.lips[j], frame.teeth[j]) /\ Gt(frame.teeth[j], frame.jaw[j])

\* lips < teeth < jaw on row j
TrendDown(frame, j) ==
    Lt(frame.lips[j], frame.teeth[j]) /\ Lt(frame.teeth[j], frame.jaw[j])

\* every line above its value of the bar before
SlopeUp(frame, j) ==
    /\ j > 1
    /\ Gt(frame.lips[j], frame.lips[j - 1])
    /\ Gt(frame.teeth[j], frame.teeth[j - 1])
    /\ Gt(frame.jaw[j], frame.jaw[j - 1])

\* every line below its value of the bar before
SlopeDown(frame, j) ==
    /\ j > 1
    /\ Lt(frame.lips[j], frame.lips[j - 1])
    /\ Lt(frame.teeth[j], frame.teeth[j - 1])
    /\ Lt(frame.jaw[j], frame.jaw[j - 1])

\* The whole entry conditions of row j; false before the first row.
LongCond(frame, j) ==
    /\ j >= 1
    /\ TrendUp(frame, j)
    /\ SlopeUp(frame, j)
    /\ Gt(frame.close[j], frame.lips[j])

ShortCond(frame, j) ==
    /\ j >= 1
    /\ TrendDown(frame, j)
    /\ SlopeDown(frame, j)
    /\ Lt(frame.close[j], frame.lips[j])

\* C11 as claimed: the entry flags are the rising edges of the whole entry
\* conditions.
C11_AsClaimed ==
    IsAlligatorTable(df_sig) =>
        \A j \in 1..NRows(df_sig) :
           /\ df_sig.long_entry[j] <=>
                 (LongCond(df_sig, j) /\ ~LongCond(df_sig, j - 1))
           /\ df_sig.short_entry[j] <=>
                 (ShortCond(df_sig, j) /\ ~ShortCond(df_sig, j - 1))

\* C11 as amended: long_entry is true on row j exactly when the whole
\* condition holds on j and long_trend did not hold on j-1; so it is true
\* only on rising edges of the whole condition, but not on all of them.
\* Symmetrically for short_entry and short_trend.
C11_TrendEdge ==
    IsAlligatorTable(df_sig) =>
        \A j \in 1..NRows(df_sig) :
           /\ df_sig.long_entry[j] <=>
                 (LongCond(df_sig, j) /\ ~(j > 1 /\ TrendUp(df_sig, j - 1)))
           /\ df_sig.short_entry[j] <=>
                 (ShortCond(df_sig, j) /\ ~(j > 1 /\ TrendDown(df_sig, j - 1)))
           /\ df_sig.long_entry[j] => ~LongCond(df_sig, j - 1)
           /\ df_sig.short_entry[j] => ~ShortCond(df_sig, j - 1)

\* A table with a long entry, and a table where the whole long condition
\* rises inside a trend that already held, without an entry flag.
C11_Witness ==
    /\ IsAlligatorTable(df_sig)
    /\ \E j \in 2..NRows(df_sig) :
          /\ LongCond(df_sig, j)
          /\ ~LongCond(df_sig, j - 1)
          /\ TrendUp(df_sig, j - 1)
          /\ ~df_sig.long_entry[j]
    /\ \E j \in 1..NRows(df_sig) : df_sig.long_entry[j]

\* C12: in a run of consecutive bars on which long_trend holds, long_entry
\* is false on every bar but the first: an entry flag on row j means that
\* the trend holds on j and did not hold on j-1.  The same for short_entry
\* and runs of short_trend.
C12_EntryOnlyAtRunStart ==
    IsAlligatorTable(df_sig) =>
        \A j \in 1..NRows(df_sig) :
           /\ df_sig.long_entry[j] =>
                 TrendUp(df_sig, j) /\ (j > 1 => ~TrendUp(df_sig, j - 1))
           /\ df_sig.short_entry[j] =>
                 TrendDown(df_sig, j) /\ (j > 1 => ~TrendDown(df_sig, j - 1))

\* A run of short_trend with the entry flag on its first bar and the whole
\* entry condition, but no flag, on a later bar of the run.
C12_Witness ==
    /\ IsAlligatorTable(df_sig)
    /\ \E j, k \in 1..NRows(df_sig) :
          /\ j < k
          /\ \A m \in j..k : TrendDown(df_sig, m)
          /\ df_sig.short_entry[j]
          /\ ShortCond(df_sig, k)
          /\ ~df_sig.short_entry[k]

\* Some indicator of row j is undefined.
IndicatorUndefined(frame, j) ==
    IF IsAlligatorTable(frame)
    THEN IsNaN(frame.jaw[j]) \/ IsNaN(frame.teeth[j]) \/ IsNaN(frame.lips[j])
    ELSE IsNaN(FastCol(frame)[j]) \/ IsNaN(SlowCol(frame)[j])

\* C13 as claimed: a row with an undefined indicator value carries no entry
\* and no exit flag, for every strategy.
C13_WarmUpRowsAllFalse ==
    \A j \in 1..NRows(df_sig) :
       IndicatorUndefined(df_sig, j) =>
          \A k \in 1..Len(Flags(df_sig, j)) : ~Flags(df_sig, j)[k]

\* C14: a call of ema.compute_signals with fast >= slow raises ValueError
\* and returns no table, no indicator column and no signal having been
\* computed; a call with fast < slow raises nothing and returns the table
\* with both averages and both flags for every bar.
C14_RejectsFastNotBelowSlow ==
    [][strategy = "ema" =>
          IF params[1] >= params[2]
          THEN pc' = "ValueError" /\ df_sig' = NoFrame
          ELSE /\ pc' = "signals"
               /\ HasCol(df_sig', "EMA_fast") /\ HasCol(df_sig', "EMA_slow")
               /\ HasCol(df_sig', "signal_long") /\ HasCol(df_sig', "signal_exit")
               /\ NRows(df_sig') = NRows(df')]_vars

\* Calls with fast = slow and with fast > slow were rejected.
C14_Witness ==
    /\ strategy = "ema"
    /\ pc = "ValueError"
    /\ NRows(df) >= 1
    /\ params[1] >= params[2]

\* C15 as claimed: a back-test called with a non-positive initial_equity
\* or a non-positive fee_rate simulates no bar: it records no equity point
\* and no trade and never reaches its statistics.
C15_RejectsBadConfiguration ==
    (~Gt(initial_equity, Zero) \/ ~Gt(fee_rate, Zero)) =>
        /\ i = 0
        /\ equity_curve = <<>>
        /\ trades = <<>>
        /\ pc # "done"

\* C16 as claimed: a name outside {sma, ema, alligator} makes apply_strategy
\* raise ValueError and makes generate_signal end without a result (None or
\* an exception); a known name with valid parameters does not make
\* apply_strategy raise ValueError.
C16_UnknownNameIsAnError ==
    call.fn # "none" =>
        /\ (strategy \notin KnownStrategies /\ call.fn = "apply_strategy")
              => call.raised = "ValueError"
        /\ (strategy \notin KnownStrategies /\ call.fn = "generate_signal")
              => call.value \notin {"table", "flags"}
        /\ (strategy \in KnownStrategies /\ call.fn = "apply_strategy")
              => call.raised # "ValueError"

\* The curve never falls from one bar to the next.
NonDecreasing(curve) ==
    \A k \in 2..Len(curve) : Ge(curve[k], curve[k - 1])

\* C17: for a finished back-test whose equity points are all positive,
\* max_drawdown is <= 0, and it is 0 exactly when the equity curve is
\* non-decreasing; max_drawdown of trader/utils.py gives the same value.
C17_DrawdownBound ==
    (pc = "done" /\ \A k \in 1..Len(equity_curve) : Gt(equity_curve[k], Zero))
       => /\ Le(stats.max_drawdown, Zero)
          /\ stats.max_drawdown = Zero <=> NonDecreasing(equity_curve)
          /\ utils_max_drawdown(equity_curve) = stats.max_drawdown

\* A finished run whose curve rose to a peak, fell below it and rose
\* again without a new peak at the end.
C17_Witness ==
    /\ pc = "done"
    /\ Len(equity_curve) >= 3
    /\ Lt(stats.max_drawdown, Zero)
    /\ \E k \in 2..Len(equity_curve) : Gt(equity_curve[k], equity_curve[k - 1])
    /\ \E k \in 2..Len(equity_curve) : Lt(equity_curve[k], equity_curve[k - 1])

\* The run has been flat so far: nothing held, the cash untouched, no
\* trade, and every equity point equal to initial_equity.
Flat ==
    /\ position = Zero
    /\ cash = initial_equity
    /\ trades = <<>>
    /\ fills = <<>>
    /\ \A k \in 1..Len(equity_curve) : equity_curve[k] = initial_equity

\* C18: a run starts flat; a bar without an entry flag (traded or skipped)
\* leaves a flat run flat; and a run that is flat when its loop ends
\* reports total_return = 0, max_drawdown = 0, sharpe_approx = 0,
\* num_trades = 0 and final_equity = initial_equity.  So a run in which no
\* entry flag is ever true stays flat throughout.
C18_FlatWithoutEntry ==
    [][/\ (pc = "loop" /\ i = 0) => Flat
       /\ (Flat /\ Stepped /\ ~row'.signal_long) => Flat'
       /\ (Flat /\ pc = "loop" /\ pc' = "done") =>
             /\ Flat'
             /\ stats'.total_return = Zero
             /\ stats'.max_drawdown = Zero
             /\ stats'.sharpe_approx = SharpeZero
             /\ stats'.num_trades = 0
             /\ stats'.final_equity = initial_equity
             /\ stats'.initial_equity = initial_equity]_vars

\* A finished run of three bars that stayed flat although its last bar
\* could trade and carried an exit flag.
C18_Witness ==
    /\ pc = "done"
    /\ Flat
    /\ Len(equity_curve) >= 3
    /\ ~Untradable(row)
    /\ row.signal_exit
    /\ stats.num_trades = 0

\* C19: the ledger holds one Trade per executed exit and nothing else: a
\* step appends as many trades as it executes exits; the executed entries
\* exceed the trades by 0 or 1; and the end of the run closes nothing: it
\* changes neither the ledger, the fills, the position nor the cash,
\* num_trades is the number of executed exits, and with a position still
\* open final_equity is cash + qty * close of the last processed bar.
C19_OnlyClosedTrades ==
    [][/\ Len(trades') = Count(fills', "exit")
       /\ Count(fills', "entry") - Len(trades') \in {0, 1}
       /\ Stepped => Len(trades') - Len(trades) = Count(NewFills, "exit")
       /\ (pc = "loop" /\ pc' = "done") =>
             /\ trades' = trades /\ fills' = fills
             /\ position' = position /\ cash' = cash
             /\ stats'.num_trades = Count(fills, "exit")
             /\ Gt(position, Zero) =>
                   /\ Count(fills, "entry") = Len(trades) + 1
                   /\ stats'.final_equity =
                         Add(cash, Mul(position, row.close))]_vars

\* A finished run with one closed trade and a second position still open.
C19_Witness ==
    /\ pc = "done"
    /\ Gt(position, Zero)
    /\ stats.num_trades = 1
    /\ Count(fills, "entry") = 2

C21_InputUntouched ==
    [][df' = df]_vars

\* C22 as claimed: a call of best_strategy ends without an exception, has
\* evaluated every candidate, and returns the name and the parameters of a
\* candidate whose total_return no evaluated candidate exceeds.
C22_BestByTotalReturn ==
    call.fn = "best_strategy" =>
        /\ call.raised = "none"
        /\ Len(call.all_results) = Len(best_strategy_candidates)
        /\ \E k \in 1..Len(call.all_results) :
              /\ call.all_results[k].name = call.best_name
              /\ call.all_results[k].params = call.best_params
              /\ \A m \in 1..Len(call.all_results) :
                    Le(call.all_results[m].stats.total_return,
                       call.all_results[k].stats.total_return)

\* C23 as claimed: a call of open_long on a manager whose position is active
\* leaves qty, entry_price, entry_time, stop_loss and take_profit as the
\* first open set them.
C23_NoRepeatOrder ==
    [][(pm.active /\ call'.fn = "open_long") => pm' = pm]_vars

\* C28: close_position leaves the manager in its initial state, whatever
\* state it is called in (so a second call changes nothing); a manager
\* that is not active holds the initial value in every field; should_exit
\* changes no field and returns True exactly when exit_signal is true, or
\* stop_loss is set and price <= stop_loss, or take_profit is set and
\* price >= take_profit.
C28_ManagerLifecycle ==
    [][/\ call'.fn = "close_position" =>
             /\ ~pm'.active
             /\ pm'.qty = Zero /\ pm'.entry_price = Zero
             /\ pm'.entry_time = NoTime
             /\ pm'.stop_loss = None /\ pm'.take_profit = None
       /\ ~pm'.active => pm' = PositionManager_init
       /\ call'.fn = "should_exit" =>
             /\ pm' = pm
             /\ call'.returned <=>
                   \/ call'.exit_signal
                   \/ /\ Defined(pm.stop_loss) /\ Defined(call'.price)
                      /\ NotAbove(call'.price, pm.stop_loss)
                   \/ /\ Defined(pm.take_profit) /\ Defined(call'.price)
                      /\ NotAbove(pm.take_profit, call'.price)]_vars

\* An exit asked for by the stop-loss alone, at a price equal to the level.
C28_Witness ==
    /\ call.fn = "should_exit"
    /\ pm.active
    /\ ~call.exit_signal
    /\ call.returned
    /\ pm.stop_loss # None
    /\ call.price = pm.stop_loss
    /\ ~(pm.take_profit # None /\ Ge(call.price, pm.take_profit))

\* The position before row j of an alligator table: flat before the first.
PrevPos(frame, j) == IF j = 1 THEN 0 ELSE frame.position[j - 1]

\* C24: the position column holds only 1, 0 and -1 and starts from flat;
\* it never goes from 1 to -1 or from -1 to 1 on consecutive rows; a flat
\* row with the long entry flag goes long, whatever the short entry flag;
\* a row whose exit flag closes the position ends flat whatever its entry
\* flags.  The same holds for the step of the position loop on every
\* combination of position and flags.
C24_PositionColumn ==
    /\ \A cp \in {0 - 1, 0, 1}, le \in BOOLEAN, se \in BOOLEAN,
          lx \in BOOLEAN, sx \in BOOLEAN :
          LET np == alligator_next_pos(cp, le, se, lx, sx)
          IN  /\ np \in {0 - 1, 0, 1}
              /\ ~(cp = 1 /\ np = 0 - 1)
              /\ ~(cp = 0 - 1 /\ np = 1)
              /\ (cp = 0 /\ le /\ se) => np = 1
              /\ (cp = 1 /\ lx) => np = 0
              /\ (cp = 0 - 1 /\ sx) => np = 0
    /\ IsAlligatorTable(df_sig) =>
          \A j \in 1..NRows(df_sig) :
             LET prev == PrevPos(df_sig, j)
                 pos == df_sig.position[j]
             IN  /\ pos \in {0 - 1, 0, 1}
                 /\ ~(prev = 1 /\ pos = 0 - 1)
                 /\ ~(prev = 0 - 1 /\ pos = 1)
                 /\ (prev = 0 /\ df_sig.long_entry[j]) => pos = 1
                 /\ (prev = 0 /\ ~df_sig.long_entry[j] /\ ~df_sig.short_entry[j])
                       => pos = 0
                 /\ (prev = 1 /\ df_sig.long_exit[j]) => pos = 0
                 /\ (prev = 0 - 1 /\ df_sig.short_exit[j]) => pos = 0

\* A long position met a row with its exit flag and the short entry flag,
\* and a short position a row with its exit flag and the long entry flag.
C24_Witness ==
    /\ IsAlligatorTable(df_sig)
    /\ \E j \in 2..NRows(df_sig) :
          \/ /\ df_sig.position[j - 1] = 1
             /\ df_sig.long_exit[j] /\ df_sig.short_entry[j]
             /\ df_sig.position[j] = 0
          \/ /\ df_sig.position[j - 1] = 0 - 1
             /\ df_sig.short_exit[j] /\ df_sig.long_entry[j]
             /\ df_sig.position[j] = 0

\* Row j of a signal table as the back-test loop of its strategy reads it:
\* the loop of alligator.py takes long_entry and long_exit as its flags.
LoopRow(frame, j) ==
    [open_time |-> frame.open_time[j],
     close |-> frame.close[j],
     next_open |-> frame.next_open[j],
     ind_na |-> IndicatorUndefined(frame, j),
     signal_long |-> IF IsAlligatorTable(frame) THEN frame.long_entry[j]
                     ELSE frame.signal_long[j],
     signal_exit |-> IF IsAlligatorTable(frame) THEN frame.long_exit[j]
                     ELSE frame.signal_exit[j]]

\* A loop state that holds a position of one unit bought at 1.
HoldingOne ==
    [cash |-> Zero, position |-> One, entry_price |-> One, entry_time |-> 1,
     trades |-> <<>>, fills |-> <<>>]

\* The exit and entry blocks of the loop of the table's strategy.
LoopTrade(frame, st, r) ==
    IF IsAlligatorTable(frame) THEN alligator_trade(st, r)
    ELSE IF HasCol(frame, "SMA_20") THEN sma_trade(st, r)
    ELSE ema_trade(st, r)

\* C25: no row of a signal table carries both the entry flag and the exit
\* flag its back-test reads (signal_long and signal_exit; long_entry and
\* long_exit), so the loop, run on any row of the table while it holds a
\* position, never executes an exit and an entry on the same bar.
C25_EntryExitExclusive ==
    \A j \in 1..NRows(df_sig) :
       /\ IsCrossTable(df_sig) =>
             ~(df_sig.signal_long[j] /\ df_sig.signal_exit[j])
       /\ IsAlligatorTable(df_sig) =>
             ~(df_sig.long_entry[j] /\ df_sig.long_exit[j])
       /\ (IsCrossTable(df_sig) \/ IsAlligatorTable(df_sig)) =>
             Len(LoopTrade(df_sig, HoldingOne, LoopRow(df_sig, j)).fills) <= 1

\* An alligator table with an entry flag on one row and the exit flag on a
\* later one, both on rows the loop can trade.
C25_Witness ==
    /\ IsAlligatorTable(df_sig)
    /\ \E j, k \in 1..NRows(df_sig) :
          /\ j < k
          /\ df_sig.long_entry[j]
          /\ df_sig.long_exit[k]
          /\ Gt(df_sig.next_open[k], Zero)
          /\ ~IndicatorUndefined(df_sig, k)
          /\ Len(LoopTrade(df_sig, HoldingOne, LoopRow(df_sig, k)).fills) = 1

RunsAgree(rs) == rs.sma = rs.ema /\ rs.ema = rs.alligator

====
